---- MODULE Spec2Model ----
(***************************************************************************)
(* A model of the a22 compiler front end: the indentation Lexer            *)
(* (src/unnamed/part_001), the indentation-grammar A22Parser               *)
(* (src/src/parser.ts, first class), the Validator and the compile driver  *)
(* (src/src/index.ts).  Source strings are TLA+ strings; a character is a  *)
(* string of length one.                                                   *)
(***************************************************************************)
EXTENDS Integers, Sequences, FiniteSets, TLC

VARIABLES
    input,          \* Lexer.input: the source text
    pos,            \* Lexer.pos (0-based offset into input)
    line,           \* Lexer.line
    col,            \* Lexer.col
    indentStack,    \* Lexer.indentStack
    pendingTokens,  \* Lexer.pendingTokens
    atLineStart,    \* Lexer.atLineStart
    tokens,         \* the local `tokens` of Lexer.tokenize, then A22Parser.tokens
    current,        \* A22Parser.current (0-based index into tokens)
    pstack,         \* the active parseBlock calls, innermost last
    blocks,         \* the local `blocks` of A22Parser.parse
    program,        \* the Program returned by parse (NoProgram before)
    vpc,            \* where Validator.validate stands: "idle", "pass1", "pass2", "returned"
    vi,             \* the index (1-based) of the block the running pass is at
    blockIds,       \* Validator.blockIds
    providers,      \* Validator.providers
    policies,       \* Validator.policies
    tools,          \* Validator.tools
    workflows,      \* Validator.workflows
    capabilities,   \* Validator.capabilities
    errors,         \* the local `errors` of Validator.validate, then of compile
    ir,             \* the document Transpiler.toIR returned (NoIR before)
    stdout,         \* the IR documents printed by console.log
    stderr,         \* the lines printed by console.error
    exitCode,       \* the status given to process.exit (0 when it was not called)
    phase,          \* where compile() stands
    thrown,         \* the message of the Error compile's catch clause receives ("" when none)
    other           \* a second compile, while it is not the one running (NoOther when
                    \* there is none): the fields of its instances and its locals

lexVars == <<input, pos, line, col, indentStack, pendingTokens, atLineStart, tokens>>
parserVars == <<current, pstack, blocks, program>>
validatorVars ==
    <<vpc, vi, blockIds, providers, policies, tools, workflows, capabilities, errors>>
outputVars == <<ir, stdout, stderr, exitCode>>
vars == <<lexVars, parserVars, validatorVars, outputVars, phase, thrown, other>>

(***************************************************************************)
(* Characters                                                              *)
(***************************************************************************)
LowerLetters == {"a","b","c","d","e","f","g","h","i","j","k","l","m",
                 "n","o","p","q","r","s","t","u","v","w","x","y","z"}
UpperLetters == {"A","B","C","D","E","F","G","H","I","J","K","L","M",
                 "N","O","P","Q","R","S","T","U","V","W","X","Y","Z"}
Digits == {"0","1","2","3","4","5","6","7","8","9"}
\* /[a-zA-Z_]/
IdentStart == LowerLetters \cup UpperLetters \cup {"_"}
\* /[a-zA-Z0-9_]/
IdentPart == IdentStart \cup Digits
\* /[0-9.]/
NumberPart == Digits \cup {"."}

KEYWORDS ==
    {"agent", "tool", "workflow", "policy", "provider", "capability",
     "can", "use", "do", "has", "is", "when", "needs",
     "steps", "parallel", "branch", "loop", "break", "continue", "return",
     "import", "from", "test", "given", "expect",
     "schedule", "every", "at", "in", "run",
     "human_in_loop", "show", "ask", "options",
     "state", "prompt", "remembers", "isolation",
     "validates", "sandbox", "auth", "config", "limits",
     "allow", "deny", "primary", "fallback", "strategy"}

\* A tab counts as this many units of indentation.
TabWidth == 4

(***************************************************************************)
(* Lexer.  A lexer state L is the record of the Lexer's mutable fields.    *)
(***************************************************************************)
\* `const x = e; ...`: what F makes of the value of e, e evaluated once
With(e, F(_)) == CHOOSE y \in {F(x) : x \in {e}} : TRUE

Token(type, value, ln, cl) == [type |-> type, value |-> value, line |-> ln, column |-> cl]

\* this.input[p]
CharAt(p) == SubSeq(input, p + 1, p + 1)

\* while (pos < input.length && S.test(peek())) advance(): the offset it stops at
RECURSIVE ScanWhile(_, _)
ScanWhile(p, S) ==
    IF p < Len(input) /\ CharAt(p) \in S THEN ScanWhile(p + 1, S) ELSE p

\* while (pos < input.length && peek() !== c) advance(): the offset it stops at
RECURSIVE ScanUntil(_, _)
ScanUntil(p, c) ==
    IF p < Len(input) /\ CharAt(p) # c THEN ScanUntil(p + 1, c) ELSE p

\* advance() n times
Advance(L, n) == [L EXCEPT !.pos = @ + n, !.col = @ + n]

\* measureIndent(): the indent measured from offset p, and the offset it stops at
RECURSIVE measureIndent(_, _)
measureIndent(p, indent) ==
    IF p < Len(input) /\ CharAt(p) = " " THEN measureIndent(p + 1, indent + 1)
    ELSE IF p < Len(input) /\ CharAt(p) = "\t" THEN measureIndent(p + 1, indent + TabWidth)
    ELSE [indent |-> indent, pos |-> p]

Top(stack) == stack[Len(stack)]

\* a dedent branch that pops one level, whatever indentLevel is
PopLevelsOne(L, indentLevel) ==
    [L EXCEPT !.indentStack = SubSeq(@, 1, Len(@) - 1),
              !.pendingTokens = Append(@, Token("Dedent", "", L.line, L.col))]

\* the while loop of the dedent branch: pops the levels above indentLevel,
\* queueing one Dedent per pop
RECURSIVE PopLevels(_, _)
PopLevels(L, indentLevel) ==
    IF Len(L.indentStack) > 1 /\ Top(L.indentStack) > indentLevel
    THEN PopLevels([L EXCEPT !.indentStack = SubSeq(@, 1, Len(@) - 1),
                             !.pendingTokens = Append(@, Token("Dedent", "", L.line, L.col))],
                   indentLevel)
    ELSE L

\* pendingTokens[0] returned and left in the queue
ShiftPendingKeep(L) == [L |-> L, tok |-> Head(L.pendingTokens), err |-> ""]

\* pendingTokens.shift()
ShiftPending(L) ==
    [L |-> [L EXCEPT !.pendingTokens = Tail(@)], tok |-> Head(L.pendingTokens), err |-> ""]

Emit(L, tok) == [L |-> L, tok |-> tok, err |-> ""]

\* readSymbol / readReference: the sigil and the identifier characters after it
readSigil(L, type) ==
    LET e == ScanWhile(L.pos + 1, IdentPart)
    IN  Emit(Advance(L, e - L.pos),
             Token(type, SubSeq(input, L.pos + 1, e), L.line, L.col))

\* a readIdentifier that does not look a word up in KEYWORDS
readIdentifierNoKeywords(L) ==
    LET e == ScanWhile(L.pos, IdentPart)
        val == SubSeq(input, L.pos + 1, e)
        type == IF val \in {"true", "false"} THEN "Boolean" ELSE "Identifier"
    IN  Emit(Advance(L, e - L.pos), Token(type, val, L.line, L.col))

readIdentifier(L) ==
    LET e == ScanWhile(L.pos, IdentPart)
        val == SubSeq(input, L.pos + 1, e)
        type == IF val \in {"true", "false"} THEN "Boolean"
                ELSE IF val \in KEYWORDS THEN "Keyword"
                ELSE "Identifier"
    IN  Emit(Advance(L, e - L.pos), Token(type, val, L.line, L.col))

readNumber(L) ==
    LET e == ScanWhile(L.pos, NumberPart)
    IN  Emit(Advance(L, e - L.pos),
             Token("Number", SubSeq(input, L.pos + 1, e), L.line, L.col))

\* readString: the closing quote is skipped whether or not it is there
readString(L) ==
    LET e == ScanUntil(L.pos + 1, "\"")
    IN  Emit(Advance(L, e + 1 - L.pos),
             Token("String", SubSeq(input, L.pos + 2, e), L.line, L.col))

advanceToken(L, type, val) == Emit(Advance(L, 1), Token(type, val, L.line, L.col))

Delimiters ==
    [c \in {"[", "]", "=", ".", ",", ":"} |->
        CASE c = "[" -> "OpenBracket"
          [] c = "]" -> "CloseBracket"
          [] c = "=" -> "Equals"
          [] c = "." -> "Dot"
          [] c = "," -> "Comma"
          [] c = ":" -> "Colon"]

\* skipWhitespaceExceptNewline()
skipWhitespaceExceptNewline(L) == Advance(L, ScanWhile(L.pos, {" ", "\t"}) - L.pos)

\* nextToken() from the statement skipWhitespaceExceptNewline() on.
\* A comment ends in `return this.nextToken()`: by then pendingTokens is empty
\* and atLineStart is false, so that call starts here again.
RECURSIVE scanToken(_)

\* nextToken() after skipWhitespaceExceptNewline()
scanFrom(L) ==
    LET char == CharAt(L.pos)
        more == L.pos + 1 < Len(input)
        nxt == CharAt(L.pos + 1)
    IN  IF L.pos >= Len(input) THEN Emit(L, Token("EOF", "", L.line, L.col))
        ELSE IF char = "\n"
        THEN Emit([L EXCEPT !.pos = @ + 1, !.line = @ + 1, !.col = 1, !.atLineStart = TRUE],
                  Token("Newline", "\n", L.line + 1, 1))
        ELSE IF char = "#"
        THEN scanToken(Advance(L, ScanUntil(L.pos, "\n") - L.pos))
        ELSE IF char = ":" /\ more /\ nxt \in IdentStart THEN readSigil(L, "Symbol")
        ELSE IF char = "." /\ more /\ nxt \in IdentStart THEN readSigil(L, "Reference")
        ELSE IF char = "-" /\ more /\ nxt = ">"
        THEN Emit(Advance(L, 2), Token("Arrow", "->", L.line, L.col))
        ELSE IF char = "." /\ more /\ nxt = "."
        THEN Emit(Advance(L, 2), Token("Range", "..", L.line, L.col))
        ELSE IF char \in IdentStart THEN readIdentifier(L)
        ELSE IF char \in Digits THEN readNumber(L)
        ELSE IF char = "\"" THEN readString(L)
        ELSE IF char \in DOMAIN Delimiters THEN advanceToken(L, Delimiters[char], char)
        ELSE [L |-> L, tok |-> Token("EOF", "", L.line, L.col),
              err |-> "Unexpected character"]

scanToken(L0) == With(skipWhitespaceExceptNewline(L0), scanFrom)

\* a line start that opens a level whenever the indentation changed
atLineStartTokenPushes(L1, indentLevel) ==
    IF indentLevel # Top(L1.indentStack)
    THEN Emit([L1 EXCEPT !.indentStack = Append(@, indentLevel)],
              Token("Indent", "", L1.line, L1.col))
    ELSE scanToken(L1)

\* nextToken() at a line start: L1 the lexer after measureIndent(), which
\* measured indentLevel
atLineStartToken(L1, indentLevel) ==
    IF indentLevel > Top(L1.indentStack)
    THEN Emit([L1 EXCEPT !.indentStack = Append(@, indentLevel)],
              Token("Indent", "", L1.line, L1.col))
    ELSE IF indentLevel < Top(L1.indentStack)
    THEN ShiftPending(PopLevels(L1, indentLevel))
    ELSE scanToken(L1)

\* Lexer.nextToken(): the new lexer state, the token returned, and the error
\* thrown ("" when none)
nextToken(L) ==
    IF Len(L.pendingTokens) > 0 THEN ShiftPending(L)
    ELSE IF L.atLineStart
    THEN With(measureIndent(L.pos, 0),
              LAMBDA m : atLineStartToken([Advance(L, m.pos - L.pos) EXCEPT !.atLineStart = FALSE],
                                          m.indent))
    ELSE scanToken(L)

\* the Lexer's fields as one record
LexState ==
    [pos |-> pos, line |-> line, col |-> col, indentStack |-> indentStack,
     pendingTokens |-> pendingTokens, atLineStart |-> atLineStart]

SetLexState(L) ==
    /\ pos' = L.pos
    /\ line' = L.line
    /\ col' = L.col
    /\ indentStack' = L.indentStack
    /\ pendingTokens' = L.pendingTokens
    /\ atLineStart' = L.atLineStart

\* tokenize() without its closing loop
TrailingDedentsNone(stack, ln, cl) == <<>>

\* the closing loop of tokenize(): one Dedent per level left above the base
RECURSIVE TrailingDedents(_, _, _)
TrailingDedents(stack, ln, cl) ==
    IF Len(stack) > 1
    THEN <<Token("Dedent", "", ln, cl)>> \o TrailingDedents(SubSeq(stack, 1, Len(stack) - 1), ln, cl)
    ELSE <<>>

(***************************************************************************)
(* AST and JavaScript values                                               *)
(***************************************************************************)
\* JavaScript values held by Literal nodes.  A number is num / 10^scale.
StrV(s) == [t |-> "string", s |-> s]
NumV(num, scale) == [t |-> "number", num |-> num, scale |-> scale]
BoolV(b) == [t |-> "boolean", b |-> b]

Literal(value, raw) == [kind |-> "Literal", value |-> value, raw |-> raw]
Reference(path) == [kind |-> "Reference", path |-> path]
ListExpr(elements) == [kind |-> "List", elements |-> elements]
MapExpr(properties) == [kind |-> "Map", properties |-> properties]
Property(key, value) == [key |-> key, value |-> value]
Attribute(key, value) == [kind |-> "Attribute", key |-> key, value |-> value]
Block(type, identifier, attributes, children) ==
    [kind |-> "Block", type |-> type, identifier |-> identifier,
     attributes |-> attributes, children |-> children]
Program(bs) == [kind |-> "Program", blocks |-> bs]
NoProgram == [kind |-> "None"]

DigitValue ==
    [c \in Digits |->
        CASE c = "0" -> 0 [] c = "1" -> 1 [] c = "2" -> 2 [] c = "3" -> 3 [] c = "4" -> 4
          [] c = "5" -> 5 [] c = "6" -> 6 [] c = "7" -> 7 [] c = "8" -> 8 [] c = "9" -> 9]

\* the digits of s from index i on, up to the first character that is no digit,
\* appended to the number acc
RECURSIVE ReadDigits(_, _, _)
ReadDigits(s, i, acc) ==
    IF i <= Len(s) /\ SubSeq(s, i, i) \in Digits
    THEN ReadDigits(s, i + 1, [n |-> acc.n * 10 + DigitValue[SubSeq(s, i, i)], i |-> i + 1])
    ELSE acc

\* trailing zeros of the fraction do not change the number
RECURSIVE Normalize(_)
Normalize(v) ==
    IF v.scale > 0 /\ v.num % 10 = 0 THEN Normalize(NumV(v.num \div 10, v.scale - 1)) ELSE v

\* parseFloat of a Number token's text (digits and dots, a digit first):
\* the integer part and, after one dot, the fraction digits
parseFloat(s) ==
    LET ip == ReadDigits(s, 1, [n |-> 0, i |-> 1])
    IN  IF ip.i <= Len(s) /\ SubSeq(s, ip.i, ip.i) = "."
        THEN LET fp == ReadDigits(s, ip.i + 1, [n |-> ip.n, i |-> ip.i + 1])
             IN  Normalize(NumV(fp.n, fp.i - (ip.i + 1)))
        ELSE NumV(ip.n, 0)

(***************************************************************************)
(* A22Parser (indentation grammar): helpers.  cur is A22Parser.current.    *)
(***************************************************************************)
peek(cur) == IF cur < Len(tokens) THEN tokens[cur + 1] ELSE tokens[Len(tokens)]
previous(cur) == IF cur >= 1 /\ cur <= Len(tokens) THEN tokens[cur] ELSE tokens[1]
isAtEnd(cur) == peek(cur).type = "EOF"
check(cur, type) == ~isAtEnd(cur) /\ peek(cur).type = type
\* advance(): current afterwards; the token it returns is previous() of that
advance(cur) == IF ~isAtEnd(cur) THEN cur + 1 ELSE cur

\* skipNewlines() and consumeNewline(): both consume every consecutive Newline
RECURSIVE skipNewlines(_)
skipNewlines(cur) == IF check(cur, "Newline") THEN skipNewlines(cur + 1) ELSE cur

\* error(token, message).message
error(token, message) ==
    "[line " \o ToString(token.line) \o "] Error at '" \o token.value \o "': " \o message

\* what a parsing method does: returns val with current = cur, or throws err
Ok(cur, val) == [ok |-> TRUE, cur |-> cur, val |-> val, err |-> ""]
Throw(message) == [ok |-> FALSE, cur |-> 0, val |-> NoProgram, err |-> message]
Fail(cur, message) == Throw(error(peek(cur), message))

UpperAlphabet == "ABCDEFGHIJKLMNOPQRSTUVWXYZ"
LowerAlphabet == "abcdefghijklmnopqrstuvwxyz"
ToLowerChar(c) ==
    IF c \in UpperLetters
    THEN LET i == CHOOSE j \in 1..26 : SubSeq(UpperAlphabet, j, j) = c
         IN  SubSeq(LowerAlphabet, i, i)
    ELSE c
RECURSIVE ToLower(_)
ToLower(s) == IF s = "" THEN "" ELSE ToLowerChar(Head(s)) \o ToLower(Tail(s))

\* /^prefix/i
StartsWithCI(value, prefix) ==
    Len(value) >= Len(prefix) /\ ToLower(SubSeq(value, 1, Len(prefix))) = prefix

\* the {32,} of the last credential pattern
CredentialMinRun == 32

\* /^[A-Za-z0-9_-]{32,}$/
IsLongRun(value) ==
    /\ Len(value) >= CredentialMinRun
    /\ \A i \in 1..Len(value) : SubSeq(value, i, i) \in IdentPart \cup {"-"}

CredentialPrefixes == {"sk-", "api_", "key_", "secret_", "token_", "bearer "}

\* some pattern of validateNotCredential's credentialPatterns matches value
MatchesCredentialPattern(value) ==
    \/ \E p \in CredentialPrefixes : StartsWithCI(value, p)
    \/ IsLongRun(value)

SecurityMessage ==
    "Security Error: Literal credential detected. "
    \o "Use environment references (env.VAR_NAME) or secrets references (secrets.KEY_NAME) instead. "
    \o "Never include literal API keys or secrets in .a22 files."

\* a validateNotCredential whose patterns match nothing
validateNotCredentialNever(value) == FALSE

\* validateNotCredential(value) throws
validateNotCredential(value) == MatchesCredentialPattern(value)

\* the string Literal a bare name becomes
NameLiteral(name) == Literal(StrV(name), name)

\* r, when the call that gave it threw; what Next makes of r otherwise
Bind(r, Next(_)) == With(r, LAMBDA x : IF x.ok THEN Next(x) ELSE x)

\* consume(type, message), then the rest
Consume(cur, type, message, Next(_)) ==
    With(cur, LAMBDA c : IF check(c, type) THEN Next(c + 1) ELSE Fail(c, message))

\* the while loop of parseReference
RECURSIVE ReferenceLoop(_, _)
ReferenceLoop(cur, path) ==
    IF check(cur, "Dot")
    THEN IF check(cur + 1, "Identifier")
         THEN ReferenceLoop(cur + 2, Append(path, peek(cur + 1).value))
         ELSE Ok(cur + 1, Reference(path))
    ELSE Ok(cur, Reference(path))

parseReference(cur) ==
    Consume(cur, "Identifier", "Expect identifier",
            LAMBDA c : ReferenceLoop(c, <<peek(cur).value>>))

RECURSIVE parseExpression(_), ListLoop(_, _)

\* the end of one pass of parseList's do-while: skipNewlines(), match(Comma)
ListNext(cur, elements) ==
    IF check(cur, "Comma") THEN ListLoop(cur + 1, elements) ELSE Ok(cur, elements)

\* one pass of parseList's do-while body, entered after skipNewlines()
ListItem(cur, elements) ==
    IF check(cur, "CloseBracket") THEN Ok(cur, elements)
    ELSE Bind(parseExpression(cur),
              LAMBDA e : ListNext(skipNewlines(e.cur), Append(elements, e.val)))

ListLoop(cur, elements) == ListItem(skipNewlines(cur), elements)

\* parseList(), entered after the '[' was consumed
parseList(cur) ==
    Bind(IF ~check(cur, "CloseBracket") THEN ListLoop(cur, <<>>) ELSE Ok(cur, <<>>),
         LAMBDA r : Consume(r.cur, "CloseBracket", "Expect ']' after list",
                            LAMBDA c : Ok(c, ListExpr(r.val))))

\* the String case of parseExpression
StringExpression(cur, value) ==
    IF validateNotCredential(value) THEN Throw(SecurityMessage)
    ELSE Ok(cur + 1, Literal(StrV(value), "\"" \o value \o "\""))

\* parseExpression, t the token at cur
ExpressionAt(cur, t) ==
    IF isAtEnd(cur) THEN Fail(cur, "Expect expression")
    ELSE CASE t.type = "Symbol" -> Ok(cur + 1, Literal(StrV(t.value), t.value))
           [] t.type = "Reference" ->
                Ok(cur + 1, Reference(<<SubSeq(t.value, 2, Len(t.value))>>))
           [] t.type = "String" -> StringExpression(cur, t.value)
           [] t.type = "Number" -> Ok(cur + 1, Literal(parseFloat(t.value), t.value))
           [] t.type = "Boolean" -> Ok(cur + 1, Literal(BoolV(t.value = "true"), t.value))
           [] t.type = "OpenBracket" -> parseList(cur + 1)
           [] t.type = "Identifier" -> parseReference(cur)
           [] OTHER -> Fail(cur, "Expect expression")

parseExpression(cur) == ExpressionAt(cur, peek(cur))

(***************************************************************************)
(* A22Parser: statements.  Each returns an Attribute or throws.            *)
(***************************************************************************)
\* skipNewlines() and the return of the Attribute, which end most statements
Finish(cur, key, value) == Ok(skipNewlines(cur), Attribute(key, value))

\* do { items.push(consume(Identifier, message).value) } while (match(Comma))
RECURSIVE NameLoop(_, _, _)
NameLoop(cur, items, message) ==
    IF ~check(cur, "Identifier") THEN Fail(cur, message)
    ELSE IF check(cur + 1, "Comma")
    THEN NameLoop(cur + 2, Append(items, peek(cur).value), message)
    ELSE Ok(cur + 1, Append(items, peek(cur).value))

NameList(items) == ListExpr([i \in 1..Len(items) |-> NameLiteral(items[i])])

parseCanStatement(cur) ==
    Bind(NameLoop(cur, <<>>, "Expect capability name"),
         LAMBDA r : Finish(r.cur, "can", NameList(r.val)))

\* one pass of the do-while body of parseUseStatement
UseItem(cur, uses) ==
    IF check(cur, "Identifier")
    THEN IF check(cur + 1, "Colon")
         THEN Bind(parseExpression(cur + 2),
                   LAMBDA e : Ok(e.cur, Append(uses, MapExpr(<<Property(peek(cur).value, e.val)>>))))
         ELSE Ok(cur + 1, Append(uses, NameLiteral(peek(cur).value)))
    ELSE Ok(cur, uses)

\* the do-while of parseUseStatement
RECURSIVE UseLoop(_, _)
UseLoop(cur, uses) ==
    Bind(UseItem(cur, uses),
         LAMBDA r : IF check(r.cur, "Comma") THEN UseLoop(r.cur + 1, r.val) ELSE r)

parseUseStatement(cur) ==
    Bind(UseLoop(cur, <<>>),
         LAMBDA r : Finish(r.cur, "use", IF Len(r.val) = 1 THEN r.val[1] ELSE ListExpr(r.val)))

parseDoStatement(cur) ==
    Consume(cur, "Reference", "Expect reference after 'do'",
            LAMBDA c : Finish(c, "do",
                              Reference(<<SubSeq(peek(cur).value, 2, Len(peek(cur).value))>>)))

\* the while loop shared by the block forms of has, state and remembers:
\* `key: value` lines (state: `key value`) up to the Dedent
RECURSIVE PropertyLoop(_, _, _, _, _)

\* one pass of that loop, entered after skipNewlines()
PropertyItem(cur, properties, colon, keyMessage, colonMessage) ==
    IF check(cur, "Dedent") THEN Ok(cur, properties)
    ELSE IF ~check(cur, "Identifier") THEN Fail(cur, keyMessage)
    ELSE IF colon /\ ~check(cur + 1, "Colon") THEN Fail(cur + 1, colonMessage)
    ELSE Bind(parseExpression(IF colon THEN cur + 2 ELSE cur + 1),
              LAMBDA e : PropertyLoop(skipNewlines(e.cur),
                                      Append(properties, Property(peek(cur).value, e.val)),
                                      colon, keyMessage, colonMessage))

PropertyLoop(cur, properties, colon, keyMessage, colonMessage) ==
    IF check(cur, "Dedent") \/ isAtEnd(cur) THEN Ok(cur, properties)
    ELSE PropertyItem(skipNewlines(cur), properties, colon, keyMessage, colonMessage)

\* consumeNewline(); consume(Indent, indentMessage); the property loop;
\* consume(Dedent, dedentMessage); the Attribute is returned
PropertyBlock(cur, key, first, colon, keyMessage, colonMessage, indentMessage, dedentMessage) ==
    Consume(skipNewlines(cur), "Indent", indentMessage,
            LAMBDA c1 :
                Bind(PropertyLoop(c1, first, colon, keyMessage, colonMessage),
                     LAMBDA r : Consume(r.cur, "Dedent", dedentMessage,
                                        LAMBDA c2 : Ok(c2, Attribute(key, MapExpr(r.val))))))

parseHasStatement(cur) ==
    IF check(cur, "Newline")
    THEN PropertyBlock(cur, "has", <<>>, TRUE, "Expect property name",
                       "Expect ':' after property name",
                       "Expect indent after 'has'", "Expect dedent after 'has' block")
    ELSE Bind(NameLoop(cur, <<>>, "Expect item name"),
              LAMBDA r : Finish(r.cur, "has", NameList(r.val)))

PromptMap(symbol, content) ==
    MapExpr(<<Property("type", Literal(StrV(symbol), symbol)),
              Property("content", Literal(StrV(content), "\"" \o content \o "\""))>>)

\* parsePromptStatement after the optional symbol
PromptBody(cur, symbol) ==
    IF check(cur, "String")
    THEN Finish(cur + 1, "prompt", PromptMap(symbol, peek(cur).value))
    ELSE Consume(skipNewlines(cur), "Indent", "Expect indent after 'prompt'",
            LAMBDA c1 :
                Consume(c1, "String", "Expect prompt content string",
                    LAMBDA c2 :
                        Consume(skipNewlines(c2), "Dedent", "Expect dedent after prompt content",
                            LAMBDA c3 : Ok(c3, Attribute("prompt",
                                                         PromptMap(symbol, peek(c1).value))))))

parsePromptStatement(cur) ==
    IF check(cur, "Symbol") THEN PromptBody(cur + 1, peek(cur).value)
    ELSE PromptBody(cur, ":default")

\* parseStateStatement after the optional symbol
StateBody(cur, symbol) ==
    PropertyBlock(cur, "state", <<Property("type", Literal(StrV(symbol), symbol))>>, FALSE,
                  "Expect property name", "",
                  "Expect indent after 'state'", "Expect dedent after 'state' block")

parseStateStatement(cur) ==
    IF check(cur, "Symbol") THEN StateBody(cur + 1, peek(cur).value)
    ELSE StateBody(cur, ":default")

parseRemembersStatement(cur) ==
    PropertyBlock(cur, "remembers", <<>>, TRUE, "Expect memory key",
                  "Expect ':' after memory key",
                  "Expect indent after 'remembers'", "Expect dedent after 'remembers' block")

parseGenericStatement(cur, keyword) ==
    Bind(parseExpression(cur), LAMBDA e : Finish(e.cur, keyword, e.val))

RECURSIVE parseStatement(_), WhenLoop(_, _)

\* one pass of the while loop of parseWhenStatement's block form, entered
\* after skipNewlines()
WhenItem(cur, actions) ==
    IF check(cur, "Dedent") THEN Ok(cur, actions)
    ELSE Bind(IF check(cur, "Arrow")
              THEN Bind(parseExpression(cur + 1),
                        LAMBDA e : Ok(e.cur, Attribute("action", e.val)))
              ELSE parseStatement(cur),
              LAMBDA a : WhenLoop(skipNewlines(a.cur), Append(actions, a.val)))

WhenLoop(cur, actions) ==
    IF check(cur, "Dedent") \/ isAtEnd(cur) THEN Ok(cur, actions)
    ELSE WhenItem(skipNewlines(cur), actions)

WhenInline(condition, action) ==
    Finish(action.cur, "when",
           MapExpr(<<Property("condition", condition.val), Property("action", action.val)>>))

WhenBlock(condition, actions) ==
    Attribute("when",
              MapExpr(<<Property("condition", condition.val),
                        Property("actions",
                                 ListExpr([i \in 1..Len(actions) |-> actions[i].value]))>>))

\* parseWhenStatement after the condition
WhenBody(condition) ==
    IF check(condition.cur, "Arrow")
    THEN Bind(parseExpression(condition.cur + 1), LAMBDA action : WhenInline(condition, action))
    ELSE Consume(skipNewlines(condition.cur), "Indent", "Expect indent after 'when'",
            LAMBDA c1 :
                Bind(WhenLoop(c1, <<>>),
                     LAMBDA r : Consume(r.cur, "Dedent", "Expect dedent after 'when' block",
                                        LAMBDA c2 : Ok(c2, WhenBlock(condition, r.val)))))

parseWhenStatement(cur) == Bind(parseExpression(cur), WhenBody)

\* the switch of parseStatement, keyword the text of the token advance() returned
StatementFor(cur, keyword) ==
    CASE keyword = "can" -> parseCanStatement(cur)
      [] keyword = "use" -> parseUseStatement(cur)
      [] keyword = "do" -> parseDoStatement(cur)
      [] keyword = "has" -> parseHasStatement(cur)
      [] keyword = "when" -> parseWhenStatement(cur)
      [] keyword = "prompt" -> parsePromptStatement(cur)
      [] keyword = "state" -> parseStateStatement(cur)
      [] keyword = "remembers" -> parseRemembersStatement(cur)
      [] OTHER -> parseGenericStatement(cur, keyword)

parseStatement(cur) == StatementFor(advance(cur), previous(advance(cur)).value)

parseAttribute(cur) ==
    Consume(cur, "Identifier", "Expect attribute key",
        LAMBDA c :
            IF check(c, "Colon") \/ check(c, "Equals")
            THEN Bind(parseExpression(c + 1), LAMBDA e : Finish(e.cur, peek(cur).value, e.val))
            ELSE Fail(c, "Expect ':' or '=' after attribute key"))

\* the statement keywords parseBlock dispatches to parseStatement
StatementKeywords ==
    {"can", "use", "do", "has", "when", "prompt", "state", "remembers",
     "isolation", "validates", "sandbox", "auth", "steps", "parallel",
     "branch", "loop", "return", "given", "expect", "show", "ask",
     "options", "timeout", "default", "allow", "deny", "limits",
     "every", "run"}

(***************************************************************************)
(* compile(): tokenize                                                     *)
(***************************************************************************)

\* an Error thrown inside compile's try block reaches its catch clause
Caught(message) ==
    /\ phase' = "caught"
    /\ thrown' = message

\* one pass of tokenize's loop: nextToken() returned a token that is not EOF
LexToken ==
    /\ phase = "lex"
    /\ \E r \in {nextToken(LexState)} :
           /\ r.err = ""
           /\ r.tok.type # "EOF"
           /\ SetLexState(r.L)
           /\ tokens' = Append(tokens, r.tok)
    /\ UNCHANGED <<input, phase, thrown>>
    /\ UNCHANGED <<parserVars, validatorVars, outputVars>>
    /\ UNCHANGED other

\* nextToken() returned EOF: tokenize closes the open indent levels, pushes
\* the EOF token and returns; compile constructs the A22Parser
LexFinish ==
    /\ phase = "lex"
    /\ \E r \in {nextToken(LexState)} :
           /\ r.err = ""
           /\ r.tok.type = "EOF"
           /\ SetLexState([r.L EXCEPT !.indentStack = <<Head(@)>>])
           /\ tokens' = tokens \o TrailingDedents(r.L.indentStack, r.L.line, r.L.col)
                               \o <<r.tok>>
    /\ phase' = "parse"
    /\ UNCHANGED <<input, thrown>>
    /\ UNCHANGED <<parserVars, validatorVars, outputVars>>
    /\ UNCHANGED other

\* nextToken() threw: no token sequence is returned
LexThrow ==
    /\ phase = "lex"
    /\ \E r \in {nextToken(LexState)} :
           /\ r.err # ""
           /\ Caught(r.err \o " '" \o CharAt(r.L.pos) \o "' at "
                     \o ToString(r.L.line) \o ":" \o ToString(r.L.col))
           /\ SetLexState(r.L)
    /\ UNCHANGED <<input, tokens>>
    /\ UNCHANGED <<parserVars, validatorVars, outputVars>>
    /\ UNCHANGED other

(***************************************************************************)
(* compile(): parse.  A frame of pstack is one parseBlock call: where it   *)
(* stands (pc) and its locals.                                             *)
(***************************************************************************)
Frame(pc, type, identifier, attributes, children) ==
    [pc |-> pc, type |-> type, identifier |-> identifier,
     attributes |-> attributes, children |-> children]

TopFrame == pstack[Len(pstack)]
SetTop(frame) == [pstack EXCEPT ![Len(pstack)] = frame]
InBlock(pc) == phase = "parse" /\ Len(pstack) > 0 /\ TopFrame.pc = pc

\* a parsing method threw: every active call is unwound
ParserThrow(message) ==
    /\ Caught(message)
    /\ pstack' = <<>>
    /\ blocks' = <<>>
    /\ UNCHANGED <<current, program>>

\* parse(): the loop has ended, the Program is returned
ParseReturn ==
    /\ phase = "parse" /\ pstack = <<>>
    /\ isAtEnd(current)
    /\ program' = Program(blocks)
    /\ phase' = "validate"
    /\ UNCHANGED <<current, pstack, blocks, thrown>>
    /\ UNCHANGED <<lexVars, validatorVars, outputVars>>
    /\ UNCHANGED other

\* parse(): one pass of the loop, up to the call of parseBlock
ParseLoop ==
    /\ phase = "parse" /\ pstack = <<>>
    /\ ~isAtEnd(current)
    /\ current' = skipNewlines(current)
    /\ pstack' = IF ~isAtEnd(skipNewlines(current))
                 THEN <<Frame("header", "", "", <<>>, <<>>)>>
                 ELSE <<>>
    /\ UNCHANGED <<blocks, program, phase, thrown>>
    /\ UNCHANGED <<lexVars, validatorVars, outputVars>>
    /\ UNCHANGED other

\* parseBlock(): the header, up to the body loop
BlockHeader ==
    /\ InBlock("header")
    /\ IF ~check(current, "Keyword")
       THEN ParserThrow(error(peek(current), "Expect block type keyword"))
       ELSE LET c1 == IF check(current + 1, "String") THEN current + 2 ELSE current + 1
                identifier == IF check(current + 1, "String") THEN peek(current + 1).value ELSE ""
                c2 == skipNewlines(c1)
            IN  IF ~check(c2, "Indent")
                THEN ParserThrow(error(peek(c2), "Expect indented block body"))
                ELSE /\ current' = c2 + 1
                     /\ pstack' = SetTop(Frame("cond", peek(current).value, identifier, <<>>, <<>>))
                     /\ UNCHANGED <<blocks, program, phase, thrown>>
    /\ UNCHANGED <<lexVars, validatorVars, outputVars>>
    /\ UNCHANGED other

\* parseBlock(): the test of the body loop
BlockCond ==
    /\ InBlock("cond")
    /\ pstack' = SetTop([TopFrame EXCEPT !.pc =
                    IF ~check(current, "Dedent") /\ ~isAtEnd(current) THEN "body" ELSE "close"])
    /\ UNCHANGED <<current, blocks, program, phase, thrown>>
    /\ UNCHANGED <<lexVars, validatorVars, outputVars>>
    /\ UNCHANGED other

\* a statement or an attribute was parsed in the body loop, or its parsing threw
BodyResult(r) ==
    IF ~r.ok THEN ParserThrow(r.err)
    ELSE /\ current' = r.cur
         /\ pstack' = SetTop([TopFrame EXCEPT !.pc = "cond", !.attributes = Append(@, r.val)])
         /\ UNCHANGED <<blocks, program, phase, thrown>>

\* body loop: skipNewlines() leaves a Dedent, break
BodyBreak ==
    /\ InBlock("body")
    /\ check(skipNewlines(current), "Dedent")
    /\ current' = skipNewlines(current)
    /\ pstack' = SetTop([TopFrame EXCEPT !.pc = "close"])
    /\ UNCHANGED <<blocks, program, phase, thrown>>
    /\ UNCHANGED <<lexVars, validatorVars, outputVars>>
    /\ UNCHANGED other

\* body loop: a statement keyword
BodyStatement ==
    /\ InBlock("body")
    /\ LET c == skipNewlines(current)
       IN  /\ ~check(c, "Dedent")
           /\ check(c, "Keyword") /\ peek(c).value \in StatementKeywords
           /\ \E r \in {parseStatement(c)} : BodyResult(r)
    /\ UNCHANGED <<lexVars, validatorVars, outputVars>>
    /\ UNCHANGED other

\* body loop: any other keyword opens a nested block
BodyNestedBlock ==
    /\ InBlock("body")
    /\ LET c == skipNewlines(current)
       IN  /\ ~check(c, "Dedent")
           /\ check(c, "Keyword") /\ peek(c).value \notin StatementKeywords
           /\ current' = c
           /\ pstack' = Append(SetTop([TopFrame EXCEPT !.pc = "cond"]),
                               Frame("header", "", "", <<>>, <<>>))
    /\ UNCHANGED <<blocks, program, phase, thrown>>
    /\ UNCHANGED <<lexVars, validatorVars, outputVars>>
    /\ UNCHANGED other

\* body loop: an identifier starts an attribute
BodyAttribute ==
    /\ InBlock("body")
    /\ LET c == skipNewlines(current)
       IN  /\ ~check(c, "Dedent")
           /\ check(c, "Identifier")
           /\ \E r \in {parseAttribute(c)} : BodyResult(r)
    /\ UNCHANGED <<lexVars, validatorVars, outputVars>>
    /\ UNCHANGED other

\* body loop: the final else, skipNewlines() and the next pass
BodyElse ==
    /\ InBlock("body")
    /\ LET c == skipNewlines(current)
       IN  /\ ~check(c, "Dedent")
           /\ ~check(c, "Keyword")
           /\ ~check(c, "Identifier")
           /\ current' = skipNewlines(c)
    /\ pstack' = SetTop([TopFrame EXCEPT !.pc = "cond"])
    /\ UNCHANGED <<blocks, program, phase, thrown>>
    /\ UNCHANGED <<lexVars, validatorVars, outputVars>>
    /\ UNCHANGED other

\* parseBlock(): consume(Dedent) and return the Block to the caller
BlockClose ==
    /\ InBlock("close")
    /\ IF ~check(current, "Dedent")
       THEN ParserThrow(error(peek(current), "Expect dedent after block body"))
       ELSE LET f == TopFrame
                block == Block(f.type, f.identifier, f.attributes, f.children)
                rest == SubSeq(pstack, 1, Len(pstack) - 1)
            IN  /\ current' = current + 1
                /\ IF rest = <<>>
                   THEN /\ pstack' = rest
                        /\ blocks' = Append(blocks, block)
                   ELSE /\ pstack' = [rest EXCEPT ![Len(rest)].children = Append(@, block)]
                        /\ blocks' = blocks
                /\ UNCHANGED <<program, phase, thrown>>
    /\ UNCHANGED <<lexVars, validatorVars, outputVars>>
    /\ UNCHANGED other

(***************************************************************************)
(* Validator                                                               *)
(***************************************************************************)
Undefined == [t |-> "undefined"]

RECURSIVE Pow10(_)
Pow10(k) == IF k = 0 THEN 1 ELSE 10 * Pow10(k - 1)

\* the decimal digits of n, at least width of them
RECURSIVE DigitsOf(_, _)
DigitsOf(n, width) ==
    IF n < 10 /\ width <= 1 THEN ToString(n)
    ELSE DigitsOf(n \div 10, width - 1) \o ToString(n % 10)

\* String(v) for the values a Literal holds, as a template literal formats them
ToJSString(v) ==
    CASE v.t = "string" -> v.s
      [] v.t = "boolean" -> IF v.b THEN "true" ELSE "false"
      [] v.t = "number" ->
            LET a == IF v.num < 0 THEN 0 - v.num ELSE v.num
                whole == DigitsOf(a \div Pow10(v.scale), 1)
            IN  (IF v.num < 0 THEN "-" ELSE "")
                \o whole
                \o (IF v.scale > 0 THEN "." \o DigitsOf(a % Pow10(v.scale), v.scale) ELSE "")
      [] OTHER -> "undefined"

\* the truthiness of a JavaScript value
Truthy(v) ==
    CASE v.t = "string" -> v.s # ""
      [] v.t = "number" -> v.num # 0
      [] v.t = "boolean" -> v.b
      [] OTHER -> FALSE

\* list.includes(v as string)
Includes(list, v) == v.t = "string" /\ \E i \in 1..Len(list) : list[i] = v.s

\* typeof v === 'number' && v <= 0
NonPositiveNumber(v) == v.t = "number" /\ v.num <= 0

\* list.join(', ')
RECURSIVE JoinWith(_, _)
JoinWith(list, sep) ==
    IF list = <<>> THEN ""
    ELSE IF Len(list) = 1 THEN list[1]
    ELSE list[1] \o sep \o JoinWith(Tail(list), sep)

\* block.attributes.find(attr => attr.key === key); Undefined when there is none
findAttribute(block, key) ==
    IF \E i \in 1..Len(block.attributes) : block.attributes[i].key = key
    THEN block.attributes[CHOOSE i \in 1..Len(block.attributes) :
            /\ block.attributes[i].key = key
            /\ \A j \in 1..(i - 1) : block.attributes[j].key # key]
    ELSE Undefined

\* block.children.find(child => child.type === type); Undefined when there is none
findChildBlock(block, type) ==
    IF \E i \in 1..Len(block.children) : block.children[i].type = type
    THEN block.children[CHOOSE i \in 1..Len(block.children) :
            /\ block.children[i].type = type
            /\ \A j \in 1..(i - 1) : block.children[j].type # type]
    ELSE Undefined

Found(x) == x # Undefined

extractLiteralValue(expr) == IF expr.kind = "Literal" THEN expr.value ELSE Undefined

validTypes == <<"llm", "embedding", "vision", "audio">>

\* validateProvider: the check of the type attribute
ProviderTypeErrors(block) ==
    LET typeAttr == findAttribute(block, "type")
        type == extractLiteralValue(typeAttr.value)
    IN  IF ~Found(typeAttr)
        THEN <<"Provider \"" \o block.identifier \o "\" missing required 'type' attribute">>
        ELSE IF Truthy(type) /\ ~Includes(validTypes, type)
        THEN <<"Provider \"" \o block.identifier \o "\" has invalid type \"" \o ToJSString(type)
               \o "\". Must be one of: " \o JoinWith(validTypes, ", ")>>
        ELSE <<>>

\* validateProvider: the check of the credentials attribute
ProviderCredentialErrors(block) ==
    LET credAttr == findAttribute(block, "credentials")
    IN  IF Found(credAttr) /\ credAttr.value.kind = "Reference"
           /\ credAttr.value.path[1] # "env" /\ credAttr.value.path[1] # "secrets"
        THEN <<"Provider \"" \o block.identifier
               \o "\" credentials must reference env.* or secrets.*, got: "
               \o JoinWith(credAttr.value.path, ".")>>
        ELSE <<>>

validateProvider(block) == ProviderTypeErrors(block) \o ProviderCredentialErrors(block)

\* the for loop of validatePolicy over the attributes of the limits block
RECURSIVE LimitErrors(_, _)
LimitErrors(identifier, attributes) ==
    IF attributes = <<>> THEN <<>>
    ELSE (IF NonPositiveNumber(extractLiteralValue(Head(attributes).value))
          THEN <<"Policy \"" \o identifier \o "\" limit \"" \o Head(attributes).key
                 \o "\" must be a positive number">>
          ELSE <<>>)
         \o LimitErrors(identifier, Tail(attributes))

validatePolicy(block) ==
    LET limitsBlock == findChildBlock(block, "limits")
    IN  IF Found(limitsBlock) THEN LimitErrors(block.identifier, limitsBlock.attributes)
        ELSE <<>>

validStrategies ==
    <<"failover", "cost_optimized", "latency_optimized", "capability_based", "round_robin">>

validateModelConfig(agentId, modelBlock) ==
    LET strategyAttr == findAttribute(modelBlock, "strategy")
        strategy == extractLiteralValue(strategyAttr.value)
    IN  IF Found(strategyAttr) /\ Truthy(strategy) /\ ~Includes(validStrategies, strategy)
        THEN <<"Agent \"" \o agentId \o "\" has invalid strategy \"" \o ToJSString(strategy)
               \o "\". Must be one of: " \o JoinWith(validStrategies, ", ")>>
        ELSE <<>>

\* one of the three checks of validateIsolation
IsolationLevelErrors(agentId, isolationBlock, key, validLevels) ==
    LET attr == findAttribute(isolationBlock, key)
        value == extractLiteralValue(attr.value)
    IN  IF Found(attr) /\ Truthy(value) /\ ~Includes(validLevels, value)
        THEN <<"Agent \"" \o agentId \o "\" isolation." \o key \o " must be one of: "
               \o JoinWith(validLevels, ", ")>>
        ELSE <<>>

validateIsolation(agentId, isolationBlock) ==
    IsolationLevelErrors(agentId, isolationBlock, "memory", <<"strict", "shared", "none">>)
    \o IsolationLevelErrors(agentId, isolationBlock, "network", <<"full", "limited", "none">>)
    \o IsolationLevelErrors(agentId, isolationBlock, "filesystem", <<"full", "readonly", "none">>)

\* a check of the policy reference that reports the policies it finds
AgentPolicyErrorsInverted(block, policyRegistry) ==
    LET policyAttr == findAttribute(block, "policy")
        path == policyAttr.value.path
    IN  IF Found(policyAttr) /\ policyAttr.value.kind = "Reference"
           /\ path[Len(path)] \in policyRegistry
        THEN <<"Agent \"" \o block.identifier \o "\" references undefined policy: "
               \o path[Len(path)]>>
        ELSE <<>>

\* validateAgent: the check of the policy reference against the policy registry
AgentPolicyErrors(block, policyRegistry) ==
    LET policyAttr == findAttribute(block, "policy")
        path == policyAttr.value.path
    IN  IF Found(policyAttr) /\ policyAttr.value.kind = "Reference"
           /\ path[Len(path)] \notin policyRegistry
        THEN <<"Agent \"" \o block.identifier \o "\" references undefined policy: "
               \o path[Len(path)]>>
        ELSE <<>>

validateAgent(block, policyRegistry) ==
    LET modelBlock == findChildBlock(block, "model")
        isolationBlock == findChildBlock(block, "isolation")
    IN  AgentPolicyErrors(block, policyRegistry)
        \o (IF Found(modelBlock) THEN validateModelConfig(block.identifier, modelBlock) ELSE <<>>)
        \o (IF Found(isolationBlock) THEN validateIsolation(block.identifier, isolationBlock)
            ELSE <<>>)

\* one of the two checks of validateTool inside security.sandbox
SandboxErrors(block, sandboxBlock, key, message) ==
    LET attr == findAttribute(sandboxBlock, key)
    IN  IF Found(attr) /\ NonPositiveNumber(extractLiteralValue(attr.value))
        THEN <<"Tool \"" \o block.identifier \o "\" sandbox." \o key \o message>>
        ELSE <<>>

validateTool(block) ==
    LET securityBlock == findChildBlock(block, "security")
        sandboxBlock == findChildBlock(securityBlock, "sandbox")
    IN  IF Found(securityBlock) /\ Found(sandboxBlock)
        THEN SandboxErrors(block, sandboxBlock, "timeout_ms", " must be positive")
             \o SandboxErrors(block, sandboxBlock, "max_memory_mb", " must be positive")
        ELSE <<>>

validateBlock(block, policyRegistry) ==
    CASE block.type = "provider" -> validateProvider(block)
      [] block.type = "policy" -> validatePolicy(block)
      [] block.type = "agent" -> validateAgent(block, policyRegistry)
      [] block.type = "tool" -> validateTool(block)
      [] OTHER -> <<>>

(***************************************************************************)
(* compile(): validate, the gate, lowering                                 *)
(***************************************************************************)

NoIR == [version |-> ""]

\* compile calls validate(ast) on a new Validator
ValidateCall ==
    /\ phase = "validate" /\ vpc = "idle"
    /\ vpc' = "pass1"
    /\ vi' = 1
    /\ errors' = <<>>
    /\ UNCHANGED <<blockIds, providers, policies, tools, workflows, capabilities>>
    /\ UNCHANGED <<phase, thrown>>
    /\ UNCHANGED <<lexVars, parserVars, outputVars>>
    /\ UNCHANGED other

\* the identifier added to the registry named kind when the block is of that type
Registered(registry, kind, block) ==
    IF block.type = kind THEN registry \cup {block.identifier} ELSE registry

\* a key that leaves the block type out
BlockKeyIdentifier(block) == "." \o block.identifier

\* const key = `${block.type}.${id}`
BlockKey(block) == block.type \o "." \o block.identifier

\* first pass, one block: the duplicate check and the registration
Register ==
    /\ phase = "validate" /\ vpc = "pass1"
    /\ vi <= Len(program.blocks)
    /\ LET block == program.blocks[vi]
           key == BlockKey(block)
       IN  /\ errors' = IF key \in blockIds
                        THEN Append(errors, "Duplicate definition: " \o key)
                        ELSE errors
           /\ blockIds' = blockIds \cup {key}
           /\ providers' = Registered(providers, "provider", block)
           /\ policies' = Registered(policies, "policy", block)
           /\ tools' = Registered(tools, "tool", block)
           /\ workflows' = Registered(workflows, "workflow", block)
           /\ capabilities' = Registered(capabilities, "capability", block)
    /\ vi' = vi + 1
    /\ UNCHANGED <<vpc, phase, thrown>>
    /\ UNCHANGED <<lexVars, parserVars, outputVars>>
    /\ UNCHANGED other

\* the first pass has seen every block
PassOneEnd ==
    /\ phase = "validate" /\ vpc = "pass1"
    /\ vi > Len(program.blocks)
    /\ vpc' = "pass2"
    /\ vi' = 1
    /\ UNCHANGED <<blockIds, providers, policies, tools, workflows, capabilities, errors>>
    /\ UNCHANGED <<phase, thrown>>
    /\ UNCHANGED <<lexVars, parserVars, outputVars>>
    /\ UNCHANGED other

\* second pass, one block: errors.push(...this.validateBlock(block))
CheckBlock ==
    /\ phase = "validate" /\ vpc = "pass2"
    /\ vi <= Len(program.blocks)
    /\ errors' = errors \o validateBlock(program.blocks[vi], policies)
    /\ vi' = vi + 1
    /\ UNCHANGED <<vpc, blockIds, providers, policies, tools, workflows, capabilities>>
    /\ UNCHANGED <<phase, thrown>>
    /\ UNCHANGED <<lexVars, parserVars, outputVars>>
    /\ UNCHANGED other

\* validate returns errors to compile
ValidateReturn ==
    /\ phase = "validate" /\ vpc = "pass2"
    /\ vi > Len(program.blocks)
    /\ vpc' = "returned"
    /\ phase' = "gate"
    /\ UNCHANGED <<vi, blockIds, providers, policies, tools, workflows, capabilities, errors>>
    /\ UNCHANGED thrown
    /\ UNCHANGED <<lexVars, parserVars, outputVars>>
    /\ UNCHANGED other

(***************************************************************************)
(* Transpiler.  A JavaScript object is a function from its keys; a string   *)
(* is a string, a boolean a BOOLEAN, a number the record of NumV.           *)
(***************************************************************************)
\* {}
EmptyObject == <<>>

\* obj[key] = val
Put(obj, key, val) ==
    [k \in DOMAIN obj \cup {key} |-> IF k = key THEN val ELSE obj[k]]

\* for (const x of seq) acc = Op(acc, x)
RECURSIVE FoldSeq(_, _, _)
FoldSeq(Op(_, _), acc, seq) ==
    IF seq = <<>> THEN acc ELSE FoldSeq(Op, Op(acc, Head(seq)), Tail(seq))

\* the value of a Literal as it stands in the IR
Plain(v) ==
    CASE v.t = "string" -> v.s
      [] v.t = "boolean" -> v.b
      [] OTHER -> v

NaN == [t |-> "NaN"]

\* Number(v) for the value of a Literal; of the strings, the empty one and
\* those of digits with at most one dot are numbers
NumberOf(v) ==
    CASE v.t = "number" -> v
      [] v.t = "boolean" -> NumV(IF v.b THEN 1 ELSE 0, 0)
      [] v.t = "string" ->
            IF v.s = "" THEN NumV(0, 0)
            ELSE IF /\ \A i \in 1..Len(v.s) : SubSeq(v.s, i, i) \in NumberPart
                    /\ SubSeq(v.s, 1, 1) \in Digits
                    /\ Cardinality({i \in 1..Len(v.s) : SubSeq(v.s, i, i) = "."}) <= 1
            THEN parseFloat(v.s)
            ELSE NaN
      [] OTHER -> NaN

extractString(expr) == IF expr.kind = "Literal" THEN ToJSString(expr.value) ELSE ""

\* an extractNumber that converts whatever it is given
extractNumberOfAny(expr) == IF expr.kind = "Literal" THEN NumberOf(expr.value) ELSE NaN

extractNumber(expr) == IF expr.kind = "Literal" THEN NumberOf(expr.value) ELSE NumV(0, 0)

extractValue(expr) == IF expr.kind = "Literal" THEN Plain(expr.value) ELSE ""

extractReference(expr) == IF expr.kind = "Reference" THEN JoinWith(expr.path, ".") ELSE ""

extractStringArray(expr) ==
    IF expr.kind = "List"
    THEN LET literals == SelectSeq(expr.elements, LAMBDA e : e.kind = "Literal")
         IN  [i \in 1..Len(literals) |-> ToJSString(literals[i].value)]
    ELSE <<>>

extractMap(map) ==
    FoldSeq(LAMBDA result, prop : Put(result, prop.key, extractValue(prop.value)),
            EmptyObject, map.properties)

extractBlockAsMap(block) ==
    FoldSeq(LAMBDA result, attr : Put(result, attr.key, extractValue(attr.value)),
            EmptyObject, block.attributes)

\* what the loop of a transform does with an attribute whose key is one of
\* keys: obj[attr.key] = val
PutIf(obj, attr, keys, val) == IF attr.key \in keys THEN Put(obj, attr.key, val) ELSE obj

\* s.split(sep) from index i on, cur the part begun and parts the parts done
RECURSIVE SplitFrom(_, _, _, _, _)
SplitFrom(s, sep, i, cur, parts) ==
    IF i > Len(s) THEN Append(parts, cur)
    ELSE IF SubSeq(s, i, i) = sep THEN SplitFrom(s, sep, i + 1, "", Append(parts, cur))
    ELSE SplitFrom(s, sep, i + 1, cur \o SubSeq(s, i, i), parts)

\* s.split(sep), sep one character
Split(s, sep) == SplitFrom(s, sep, 1, "", <<>>)

extractModelProviderConfig(map) ==
    FoldSeq(LAMBDA config, prop :
                CASE prop.key = "provider" -> Put(config, "provider", extractReference(prop.value))
                  [] prop.key = "name" -> Put(config, "name", extractString(prop.value))
                  [] prop.key = "params" /\ prop.value.kind = "Map" ->
                        Put(config, "params", extractMap(prop.value))
                  [] OTHER -> config,
            EmptyObject, map.properties)

\* elements.filter(e => e.kind === 'Map').map(e => extractModelProviderConfig(e))
FallbackConfigs(elements) ==
    LET maps == SelectSeq(elements, LAMBDA e : e.kind = "Map")
    IN  [i \in 1..Len(maps) |-> extractModelProviderConfig(maps[i])]

transformModelConfig(block) ==
    FoldSeq(LAMBDA config, attr :
                CASE attr.key = "primary" /\ attr.value.kind = "Map" ->
                        Put(config, "primary", extractModelProviderConfig(attr.value))
                  [] attr.key = "fallback" /\ attr.value.kind = "List" ->
                        Put(config, "fallback", FallbackConfigs(attr.value.elements))
                  [] attr.key = "strategy" -> Put(config, "strategy", extractString(attr.value))
                  [] OTHER -> config,
            EmptyObject, block.attributes)

transformIsolation(block) ==
    FoldSeq(LAMBDA isolation, attr :
                PutIf(isolation, attr, {"memory", "network", "filesystem"},
                      extractString(attr.value)),
            EmptyObject, block.attributes)

transformPolicyAllow(block) ==
    FoldSeq(LAMBDA allow, attr :
                PutIf(allow, attr, {"tools", "workflows", "data", "capabilities"},
                      extractStringArray(attr.value)),
            EmptyObject, block.attributes)

transformPolicyDeny(block) ==
    FoldSeq(LAMBDA deny, attr :
                PutIf(deny, attr, {"tools", "workflows", "data"},
                      extractStringArray(attr.value)),
            EmptyObject, block.attributes)

transformResourceLimits(block) ==
    FoldSeq(LAMBDA limits, attr :
                PutIf(limits, attr,
                      {"max_memory_mb", "max_execution_time", "max_tool_calls",
                       "max_workflow_depth"},
                      extractNumber(attr.value)),
            EmptyObject, block.attributes)

transformPolicy(block) ==
    FoldSeq(LAMBDA policy, child :
                CASE child.type = "allow" -> Put(policy, "allow", transformPolicyAllow(child))
                  [] child.type = "deny" -> Put(policy, "deny", transformPolicyDeny(child))
                  [] child.type = "limits" ->
                        Put(policy, "limits", transformResourceLimits(child))
                  [] OTHER -> policy,
            [id |-> block.identifier, name |-> block.identifier], block.children)

\* a ModelConfig that splits whenever the model string holds a slash
ModelOfStringAnySlash(modelStr) ==
    LET parts == Split(modelStr, "/")
    IN  IF Len(parts) >= 2
        THEN [provider |-> parts[1], name |-> parts[2]]
        ELSE [provider |-> "default", name |-> modelStr]

\* the model case of transformAgent for a Literal: the ModelConfig of a model string
ModelOfString(modelStr) ==
    LET parts == Split(modelStr, "/")
    IN  IF Len(parts) = 2
        THEN [provider |-> parts[1], name |-> parts[2]]
        ELSE [provider |-> "default", name |-> modelStr]

\* the first loop of transformAgent, over the attributes
AgentAttributes(agent, attributes) ==
    FoldSeq(LAMBDA a, attr :
                CASE attr.key = "system_prompt" ->
                        Put(a, "system_prompt", extractString(attr.value))
                  [] attr.key = "prompt_template" ->
                        Put(a, "prompt_template", extractReference(attr.value))
                  [] attr.key = "capabilities" ->
                        Put(a, "capabilities", extractStringArray(attr.value))
                  [] attr.key = "model" /\ attr.value.kind = "Literal" ->
                        Put(a, "model", ModelOfString(extractString(attr.value)))
                  [] attr.key = "policy" -> Put(a, "policy", extractReference(attr.value))
                  [] OTHER -> a,
            agent, attributes)

transformAgent(block) ==
    FoldSeq(LAMBDA agent, child :
                CASE child.type = "model" -> Put(agent, "model", transformModelConfig(child))
                  [] child.type = "policy" -> Put(agent, "policy", transformPolicy(child))
                  [] child.type = "isolation" ->
                        Put(agent, "isolation", transformIsolation(child))
                  [] OTHER -> agent,
            AgentAttributes([id |-> block.identifier, name |-> block.identifier],
                            block.attributes),
            block.children)

\* the rules of one field in transformValidationRules
FieldRules(child) ==
    FoldSeq(LAMBDA fieldRules, attr :
                CASE attr.key \in {"max_length", "min_length", "min", "max", "pattern"} ->
                        Put(fieldRules, attr.key, extractValue(attr.value))
                  [] attr.key = "deny_patterns" ->
                        Put(fieldRules, "deny_patterns", extractStringArray(attr.value))
                  [] OTHER -> fieldRules,
            EmptyObject, child.attributes)

transformValidationRules(block) ==
    FoldSeq(LAMBDA rules, child : Put(rules, child.identifier, FieldRules(child)),
            EmptyObject, block.children)

transformSandbox(block) ==
    FoldSeq(LAMBDA sandbox, attr :
                CASE attr.key \in {"timeout_ms", "max_memory_mb", "network_allowed",
                                   "filesystem_allowed", "filesystem_mode"} ->
                        Put(sandbox, attr.key, extractValue(attr.value))
                  [] attr.key \in {"network_hosts", "filesystem_paths"} ->
                        Put(sandbox, attr.key, extractStringArray(attr.value))
                  [] OTHER -> sandbox,
            EmptyObject, block.attributes)

transformOutputValidation(block) ==
    FoldSeq(LAMBDA output, attr :
                PutIf(output, attr, {"max_size_kb"}, extractNumber(attr.value)),
            EmptyObject, block.attributes)

transformToolSecurity(block) ==
    FoldSeq(LAMBDA security, child :
                CASE child.type = "validate" ->
                        Put(security, "validate", transformValidationRules(child))
                  [] child.type = "sandbox" -> Put(security, "sandbox", transformSandbox(child))
                  [] child.type = "output" ->
                        Put(security, "output", transformOutputValidation(child))
                  [] OTHER -> security,
            EmptyObject, block.children)

\* the loop of transformToolSchema stores nothing
transformToolSchema(block) == EmptyObject

\* the first loop of transformTool, over the attributes
ToolAttributes(tool, attributes) ==
    FoldSeq(LAMBDA t, attr : PutIf(t, attr, {"runtime", "handler"}, extractString(attr.value)),
            tool, attributes)

transformTool(block) ==
    FoldSeq(LAMBDA tool, child :
                CASE child.type = "schema" -> Put(tool, "schema", transformToolSchema(child))
                  [] child.type = "security" ->
                        Put(tool, "security", transformToolSecurity(child))
                  [] OTHER -> tool,
            ToolAttributes([id |-> block.identifier, name |-> block.identifier,
                            schema |-> EmptyObject], block.attributes),
            block.children)

transformWorkflow(block) ==
    [id |-> block.identifier, name |-> block.identifier, steps |-> <<>>]

\* a credential reference that keeps the whole path as ref
transformCredentialReferenceWhole(ref) ==
    [type |-> ref.path[1], ref |-> JoinWith(ref.path, ".")]

transformCredentialReference(ref) ==
    [type |-> ref.path[1], ref |-> JoinWith(Tail(ref.path), ".")]

transformRateLimits(block) ==
    FoldSeq(LAMBDA limits, attr :
                PutIf(limits, attr,
                      {"requests_per_minute", "tokens_per_minute", "requests_per_day"},
                      extractNumber(attr.value)),
            EmptyObject, block.attributes)

\* the first loop of transformProvider, over the attributes
ProviderAttributes(provider, attributes) ==
    FoldSeq(LAMBDA p, attr :
                CASE attr.key = "type" -> Put(p, "type", extractString(attr.value))
                  [] attr.key = "credentials" /\ attr.value.kind = "Reference" ->
                        Put(p, "credentials", transformCredentialReference(attr.value))
                  [] attr.key = "credentials" /\ attr.value.kind = "Map" ->
                        Put(p, "credentials", extractMap(attr.value))
                  [] OTHER -> p,
            provider, attributes)

transformProvider(block) ==
    FoldSeq(LAMBDA provider, child :
                CASE child.type = "config" -> Put(provider, "config", extractBlockAsMap(child))
                  [] child.type = "limits" -> Put(provider, "limits", transformRateLimits(child))
                  [] OTHER -> provider,
            ProviderAttributes([id |-> block.identifier, name |-> block.identifier,
                                type |-> "llm"], block.attributes),
            block.children)

extractPermission(map) ==
    FoldSeq(LAMBDA permission, prop :
                IF prop.key \in {"resource", "action"}
                THEN Put(permission, prop.key, extractString(prop.value))
                ELSE permission,
            EmptyObject, map.properties)

\* list.elements.filter(e => e.kind === 'Map').map(e => extractPermission(e))
Permissions(elements) ==
    LET maps == SelectSeq(elements, LAMBDA e : e.kind = "Map")
    IN  [i \in 1..Len(maps) |-> extractPermission(maps[i])]

transformCapabilityRequirements(block) ==
    FoldSeq(LAMBDA requires, attr :
                IF attr.key = "permissions" /\ attr.value.kind = "List"
                THEN Put(requires, "permissions", Permissions(attr.value.elements))
                ELSE requires,
            EmptyObject, block.attributes)

transformCapabilityGrants(block) ==
    FoldSeq(LAMBDA grants, attr :
                PutIf(grants, attr, {"tools", "workflows", "data"},
                      extractStringArray(attr.value)),
            EmptyObject, block.attributes)

\* the first loop of transformCapability, over the attributes
CapabilityAttributes(capability, attributes) ==
    FoldSeq(LAMBDA c, attr : PutIf(c, attr, {"kind", "description"}, extractString(attr.value)),
            capability, attributes)

transformCapability(block) ==
    FoldSeq(LAMBDA capability, child :
                CASE child.type = "requires" ->
                        Put(capability, "requires", transformCapabilityRequirements(child))
                  [] child.type = "grants" ->
                        Put(capability, "grants", transformCapabilityGrants(child))
                  [] OTHER -> capability,
            CapabilityAttributes([id |-> block.identifier, name |-> block.identifier,
                                  kind |-> "external"], block.attributes),
            block.children)

transformTemplate(block) ==
    FoldSeq(LAMBDA template, attr :
                PutIf(template, attr, {"system", "user_prefix", "user_suffix", "format"},
                      extractString(attr.value)),
            [id |-> block.identifier, name |-> block.identifier], block.attributes)

transformConfig(block) ==
    FoldSeq(LAMBDA config, attr : PutIf(config, attr, {"type"}, extractString(attr.value)),
            [id |-> block.identifier, name |-> block.identifier,
             config |-> extractBlockAsMap(block)],
            block.attributes)

\* the second loop of transformDataType: one field for each attribute other
\* than description
DataFields(attributes) ==
    LET fields == SelectSeq(attributes, LAMBDA attr : attr.key # "description")
    IN  [i \in 1..Len(fields) |->
            [name |-> fields[i].key, type |-> [type |-> "string"], optional |-> FALSE]]

transformDataType(block) ==
    FoldSeq(LAMBDA customType, attr :
                PutIf(customType, attr, {"description"}, extractString(attr.value)),
            [name |-> block.identifier, fields |-> DataFields(block.attributes)],
            block.attributes)

\* the entity a top-level block is lowered to: the cases of toIR's switch
Entity(block) ==
    CASE block.type = "agent" -> transformAgent(block)
      [] block.type = "tool" -> transformTool(block)
      [] block.type = "workflow" -> transformWorkflow(block)
      [] block.type = "provider" -> transformProvider(block)
      [] block.type = "policy" -> transformPolicy(block)
      [] block.type = "capability" -> transformCapability(block)
      [] block.type = "template" -> transformTemplate(block)
      [] block.type = "config" -> transformConfig(block)
      [] block.type = "data" -> transformDataType(block)

\* the entities of the blocks of one type, the last block first
RECURSIVE LoweredReversed(_, _)
LoweredReversed(bs, type) ==
    IF bs = <<>> THEN <<>>
    ELSE LoweredReversed(Tail(bs), type)
         \o (IF Head(bs).type = type THEN <<Entity(Head(bs))>> ELSE <<>>)

\* the entities of the blocks of one type, in source order
RECURSIVE Lowered(_, _)
Lowered(bs, type) ==
    IF bs = <<>> THEN <<>>
    ELSE (IF Head(bs).type = type THEN <<Entity(Head(bs))>> ELSE <<>>) \o Lowered(Tail(bs), type)

\* Transpiler.toIR
toIR(prog) ==
    [version |-> "1.0",
     agents |-> Lowered(prog.blocks, "agent"),
     tools |-> Lowered(prog.blocks, "tool"),
     flows |-> Lowered(prog.blocks, "workflow"),
     providers |-> Lowered(prog.blocks, "provider"),
     policies |-> Lowered(prog.blocks, "policy"),
     capabilities |-> Lowered(prog.blocks, "capability"),
     templates |-> Lowered(prog.blocks, "template"),
     configs |-> Lowered(prog.blocks, "config"),
     types |-> Lowered(prog.blocks, "data")]

\* a gate that lets every program through
GateRejectsNever(errs) == FALSE

\* a gate that lets a single diagnostic through
GateRejectsSeveral(errs) == Len(errs) > 1

\* if (errors.length > 0)
GateRejects(errs) == Len(errs) > 0

\* compile: diagnostics were returned; each is printed and the process exits
CompileReject ==
    /\ phase = "gate"
    /\ GateRejects(errors)
    /\ stderr' = stderr \o <<"Validation failed:">>
                        \o [i \in 1..Len(errors) |-> "- " \o errors[i]]
    /\ exitCode' = 1
    /\ phase' = "exit"
    /\ UNCHANGED <<ir, stdout, thrown>>
    /\ UNCHANGED <<lexVars, parserVars, validatorVars>>
    /\ UNCHANGED other

\* compile: no diagnostic; the AST is lowered and the IR printed
CompileLower ==
    /\ phase = "gate"
    /\ ~GateRejects(errors)
    /\ ir' = toIR(program)
    /\ stdout' = Append(stdout, toIR(program))
    /\ phase' = "done"
    /\ UNCHANGED <<stderr, exitCode, thrown>>
    /\ UNCHANGED <<lexVars, parserVars, validatorVars>>
    /\ UNCHANGED other

\* compile's catch clause: the message is printed and the process exits
CompileCatch ==
    /\ phase = "caught"
    /\ stderr' = Append(stderr, thrown)
    /\ exitCode' = 1
    /\ phase' = "exit"
    /\ UNCHANGED <<ir, stdout, thrown>>
    /\ UNCHANGED <<lexVars, parserVars, validatorVars>>
    /\ UNCHANGED other

\* toIR(program) called on a new Transpiler, outside compile
ToIRCall ==
    /\ phase = "lower"
    /\ ir' = toIR(program)
    /\ phase' = "lowered"
    /\ UNCHANGED <<stdout, stderr, exitCode, thrown>>
    /\ UNCHANGED <<lexVars, parserVars, validatorVars>>
    /\ UNCHANGED other

(***************************************************************************)
(* Inputs                                                                  *)
(***************************************************************************)
\* the longest layout text given to the Lexer alone
MaxTextLen == 4
\* the most body lines of a composed source
MaxBodyLines == 2

\* the characters of the layout texts: indentation, line ends, a word, a
\* comment and a character the Lexer does not know
LayoutChars == {" ", "\t", "\n", "a", "#", "!"}

\* every string over LayoutChars of length n
RECURSIVE StringsOfLen(_)
StringsOfLen(n) ==
    IF n = 0 THEN {""} ELSE {t \o c : t \in StringsOfLen(n - 1), c \in LayoutChars}

LayoutTexts == UNION {StringsOfLen(n) : n \in 0..MaxTextLen}

ProviderSecretsText == "provider \"x\"\n  type: \"llm\"\n  credentials = secrets.API_KEY\n"
ProviderLiteralKeyText ==
    "provider \"x\"\n  credentials = \"sk-abcdef1234567890abcdef1234567890\"\n"
PromptKeyText == "agent \"a\"\n  prompt \"sk-abcdef1234567890abcdef1234567890\"\n"
DuplicateProvidersText ==
    "provider \"openai\"\n  type: \"llm\"\nprovider \"openai\"\n  type: \"llm\"\n"

AgentCanChatText == "agent \"x\"\n  can chat\n"
\* a string literal that spans two lines, and an unknown character after it
MultiLineStringText == "agent \"a\nb\"\n  can !\n"
\* a line that closes two indent levels at once
DoubleDedentText == "agent \"a\"\n  has\n    x: 1\nagent \"b\"\n"

\* whole sources, one for each construct of the grammar
SampleTexts ==
    {AgentCanChatText,
     DoubleDedentText,
     MultiLineStringText,
     ProviderSecretsText,
     ProviderLiteralKeyText,
     PromptKeyText,
     DuplicateProvidersText,
     "# providers\nprovider \"p\"\n  type: \"vision\"\n  credentials = env\n  limits 10\n\npolicy \"strict\"\n  allow [read, \"write\"]\n",
     "agent \"a\"\n  policy: strict\n  use gateway, model: :gpt4\n  do .create\n  has memory, tools\n",
     "agent \"a\"\n  has\n    retries: 3\n    ratio: 0.50\n  state :persistent\n    backend :redis\n  remembers\n    chat: always\n",
     "agent \"a\"\n  when ready -> .go\n  when busy\n    -> .wait\n    can retry\n  prompt :system\n    \"You help.\"\n  prompt \"hi\"\n",
     "workflow \"w\"\n  steps [\n    one,\n    two\n  ]\n",
     "agent \"a\"\n  config \"c\"\n    debug = true\n    span: 1..5\n  isolation :strict\n",
     "tool \"t\"\n\tauth \"Bearer abc\"\n",
     "agent \"a\"\n  name = \"abcdefghijklmnopqrstuvwxyz-ABCDEF\"\n",
     "agent \"a\"\n  model = ,\n",
     "agent \"a\"\n  can\n",
     "agent \"a\" {\n}\n",
     "\nagent\n  x = 1\n",
     "x = 1\n",
     "agent \"a\"\ncan chat\n",
     "policy \"p\"\n  limits\n    max_tool_calls = -1\n",
     "agent \"a\"\n  x y\n",
     "agent \"a\"\n  tool \"b\"\n    x = 1\n  # done\n"}

HeaderLines == {"provider \"x\"\n", "agent \"a\"\n"}

\* lines of a block body
BodyLines ==
    {"  type: \"llm\"\n",
     "  type = banana\n",
     "  credentials = secrets.API_KEY\n",
     "  credentials = vault\n",
     "  credentials = \"sk-live\"\n",
     "  prompt \"api_key\"\n",
     "  can chat\n",
     "  policy: strict\n",
     "\n",
     "    deep: 1\n",
     " near: 1\n",
     "  :sym\n"}

\* a header line followed by n body lines
RECURSIVE Composed(_)
Composed(n) ==
    IF n = 0 THEN HeaderLines ELSE {t \o b : t \in Composed(n - 1), b \in BodyLines}

ComposedTexts == UNION {Composed(n) : n \in 0..MaxBodyLines}

(***************************************************************************)
(* Specifications                                                          *)
(***************************************************************************)
\* the state after `new Lexer(text)`, before anything else of compile ran
InitWith(text) ==
    /\ input = text
    /\ pos = 0
    /\ line = 1
    /\ col = 1
    /\ indentStack = <<0>>
    /\ pendingTokens = <<>>
    /\ atLineStart = TRUE
    /\ tokens = <<>>
    /\ current = 0
    /\ pstack = <<>>
    /\ blocks = <<>>
    /\ program = NoProgram
    /\ vpc = "idle"
    /\ vi = 1
    /\ blockIds = {}
    /\ providers = {}
    /\ policies = {}
    /\ tools = {}
    /\ workflows = {}
    /\ capabilities = {}
    /\ errors = <<>>
    /\ ir = NoIR
    /\ stdout = <<>>
    /\ stderr = <<>>
    /\ exitCode = 0
    /\ phase = "lex"
    /\ thrown = ""

\* there is no second compile
NoOther == [phase |-> "none"]

\* compile of a source file
Init == other = NoOther /\ \E text \in SampleTexts \cup ComposedTexts : InitWith(text)

Next ==
    \/ LexToken
    \/ LexFinish
    \/ LexThrow
    \/ ParseLoop
    \/ ParseReturn
    \/ BlockHeader
    \/ BlockCond
    \/ BodyBreak
    \/ BodyStatement
    \/ BodyNestedBlock
    \/ BodyAttribute
    \/ BodyElse
    \/ BlockClose
    \/ ValidateCall
    \/ Register
    \/ PassOneEnd
    \/ CheckBlock
    \/ ValidateReturn
    \/ CompileReject
    \/ CompileLower
    \/ CompileCatch

Spec == Init /\ [][Next]_vars

\* compile runs on one thread and never waits: a step that can be taken is taken
FairSpec == Spec /\ WF_vars(Next)

\* the Lexer alone, on every layout text
InitLex == other = NoOther /\ \E text \in LayoutTexts \cup SampleTexts : InitWith(text)

NextLex ==
    \/ LexToken
    \/ LexFinish
    \/ LexThrow

SpecLex == InitLex /\ [][NextLex]_vars

\* the Lexer never waits: tokenize's loop runs until it returns or throws
FairSpecLex == SpecLex /\ WF_vars(NextLex)

(***************************************************************************)
(* The Validator alone, on Programs built as values: validate() is public, *)
(* and takes child blocks that the indentation grammar does not produce.   *)
(***************************************************************************)
\* the most top-level blocks of a Program given to validate()
MaxBlocks == 3

StringAttr(key, s) == Attribute(key, Literal(StrV(s), "\"" \o s \o "\""))
NumberAttr(key, n) == Attribute(key, Literal(NumV(n, 0), ToString(n)))

BlockPool ==
    {Block("provider", "openai",
           <<StringAttr("type", "llm"),
             Attribute("credentials", Reference(<<"secrets", "API_KEY">>))>>, <<>>),
     Block("provider", "x.y",
           <<StringAttr("type", "fast"),
             Attribute("credentials", Reference(<<"vault", "key">>))>>, <<>>),
     Block("provider", "p", <<StringAttr("region", "eu")>>, <<>>),
     Block("provider", "q", <<Attribute("type", Reference(<<"banana">>))>>, <<>>),
     Block("policy", "strict", <<>>,
           <<Block("limits", "", <<NumberAttr("max_tool_calls", 0 - 1), NumberAttr("rate", 0),
                                   NumberAttr("depth", 5)>>, <<>>)>>),
     Block("policy", "lax", <<>>,
           <<Block("limits", "", <<NumberAttr("depth", 5)>>, <<>>),
             Block("limits", "", <<NumberAttr("max_tool_calls", 0 - 1)>>, <<>>)>>),
     Block("agent", "a",
           <<Attribute("policy", Reference(<<"strict">>))>>,
           <<Block("isolation", "",
                   <<StringAttr("memory", "open"), StringAttr("network", "full"),
                     StringAttr("filesystem", "rw")>>, <<>>)>>),
     Block("agent", "b", <<Attribute("policy", Reference(<<"policies", "lax">>))>>, <<>>),
     Block("agent", "c", <<>>,
           <<Block("isolation", "",
                   <<StringAttr("memory", ""),
                     Attribute("network", Reference(<<"bogus">>))>>, <<>>)>>),
     Block("agent", "openai", <<>>,
           <<Block("model", "", <<StringAttr("strategy", "random")>>, <<>>)>>),
     Block("tool", "t", <<>>,
           <<Block("security", "", <<>>,
                   <<Block("sandbox", "", <<NumberAttr("timeout_ms", 0),
                                            NumberAttr("max_memory_mb", 0 - 5)>>, <<>>)>>)>>),
     Block("workflow", "w", <<>>, <<>>),
     Block("capability", "openai", <<>>, <<>>)}

\* every sequence of n blocks of the pool
RECURSIVE BlockSeqs(_)
BlockSeqs(n) ==
    IF n = 0 THEN {<<>>} ELSE {Append(bs, b) : bs \in BlockSeqs(n - 1), b \in BlockPool}

Programs == {Program(bs) : bs \in UNION {BlockSeqs(n) : n \in 0..MaxBlocks}}

\* a new Validator about to validate a Program
InitValidate ==
    /\ input = ""
    /\ pos = 0
    /\ line = 1
    /\ col = 1
    /\ indentStack = <<0>>
    /\ pendingTokens = <<>>
    /\ atLineStart = TRUE
    /\ tokens = <<>>
    /\ current = 0
    /\ pstack = <<>>
    /\ blocks = <<>>
    /\ program \in Programs
    /\ vpc = "idle"
    /\ vi = 1
    /\ blockIds = {}
    /\ providers = {}
    /\ policies = {}
    /\ tools = {}
    /\ workflows = {}
    /\ capabilities = {}
    /\ errors = <<>>
    /\ ir = NoIR
    /\ stdout = <<>>
    /\ stderr = <<>>
    /\ exitCode = 0
    /\ phase = "validate"
    /\ thrown = ""
    /\ other = NoOther

NextValidate ==
    \/ ValidateCall
    \/ Register
    \/ PassOneEnd
    \/ CheckBlock
    \/ ValidateReturn

SpecValidate == InitValidate /\ [][NextValidate]_vars

(***************************************************************************)
(* The Transpiler alone, on Programs built as values: toIR() is public.    *)
(***************************************************************************)
\* the longest model string of an agent given to toIR()
MaxModelLen == 3
\* the most top-level blocks of a Program given to toIR()
MaxLowerBlocks == 2

\* every string over a letter and the slash of length n
RECURSIVE SlashStrings(_)
SlashStrings(n) ==
    IF n = 0 THEN {""} ELSE {t \o c : t \in SlashStrings(n - 1), c \in {"a", "/"}}

ModelStrings ==
    UNION {SlashStrings(n) : n \in 0..MaxModelLen} \cup {"openai/gpt-4", "gpt-4"}

\* providers whose credentials are references of one to three segments, maps
\* (empty, of literals, with a key given twice, with an entry that is no
\* literal), a literal, and a reference followed by a map
CredentialProviders ==
    {Block("provider", "c", <<Attribute("credentials", value)>>, <<>>) :
        value \in {Reference(<<"env">>),
                   Reference(<<"secrets", "a", "b">>),
                   MapExpr(<<>>),
                   MapExpr(<<Property("key", Literal(StrV("v"), "\"v\"")),
                             Property("ttl", Literal(NumV(3, 0), "3")),
                             Property("live", Literal(BoolV(TRUE), "true"))>>),
                   MapExpr(<<Property("key", Literal(StrV("v"), "\"v\"")),
                             Property("key", Literal(StrV("w"), "\"w\""))>>),
                   MapExpr(<<Property("key", Reference(<<"secrets", "a">>)),
                             Property("ttl", ListExpr(<<>>))>>),
                   Literal(StrV("plain"), "\"plain\"")}}
    \cup {Block("provider", "d",
                <<Attribute("credentials", Reference(<<"env", "KEY">>)),
                  Attribute("credentials",
                            MapExpr(<<Property("key", Literal(StrV("v"), "\"v\""))>>)),
                  Attribute("credentials", Literal(StrV("plain"), "\"plain\""))>>, <<>>)}

\* blocks whose attributes are not of the variant their lowering rule expects
MisshapenBlocks ==
    {Block("agent", "x",
           <<Attribute("system_prompt", Reference(<<"prompts", "main">>)),
             StringAttr("prompt_template", "tpl"),
             StringAttr("capabilities", "chat"),
             Attribute("policy", ListExpr(<<Reference(<<"strict">>)>>))>>, <<>>),
     Block("provider", "r", <<>>,
           <<Block("limits", "",
                   <<Attribute("requests_per_minute", Reference(<<"fast">>)),
                     NumberAttr("tokens_per_minute", 100),
                     StringAttr("requests_per_day", "many")>>, <<>>)>>),
     Block("template", "t", <<Attribute("system", MapExpr(<<>>))>>, <<>>),
     Block("config", "k",
           <<Attribute("type", Reference(<<"runtime">>)),
             Attribute("hosts", ListExpr(<<Literal(StrV("a"), "\"a\"")>>)),
             StringAttr("mode", "fast")>>, <<>>)}

\* blocks of the types toIR lowers that the Validator's pool lacks, an agent
\* for each model string, and blocks of types toIR does not know
LowerPool ==
    BlockPool
    \cup CredentialProviders
    \cup MisshapenBlocks
    \cup {Block("agent", "a", <<StringAttr("model", m)>>, <<>>) : m \in ModelStrings}
    \cup {Block("agent", "m",
                <<StringAttr("model", "a/b"), StringAttr("system_prompt", "Be brief.")>>,
                <<Block("model", "", <<StringAttr("strategy", "failover")>>, <<>>)>>),
          Block("agent", "n", <<NumberAttr("model", 4),
                                Attribute("model", Reference(<<"gpt">>))>>, <<>>),
          Block("template", "tpl", <<StringAttr("system", "You help."),
                                     StringAttr("lang", "en")>>, <<>>),
          Block("config", "cfg", <<StringAttr("type", "runtime"), NumberAttr("retries", 3)>>,
                <<>>),
          Block("data", "User", <<StringAttr("description", "a user"),
                                  StringAttr("email", "string")>>, <<>>),
          Block("schedule", "nightly", <<StringAttr("every", "day")>>, <<>>),
          Block("import", "", <<>>, <<>>)}

\* every sequence of n blocks of the pool
RECURSIVE LowerSeqs(_)
LowerSeqs(n) ==
    IF n = 0 THEN {<<>>} ELSE {Append(bs, b) : bs \in LowerSeqs(n - 1), b \in LowerPool}

LowerPrograms == {Program(bs) : bs \in UNION {LowerSeqs(n) : n \in 0..MaxLowerBlocks}}

\* a new Transpiler about to lower a Program
InitLower ==
    /\ input = ""
    /\ pos = 0
    /\ line = 1
    /\ col = 1
    /\ indentStack = <<0>>
    /\ pendingTokens = <<>>
    /\ atLineStart = TRUE
    /\ tokens = <<>>
    /\ current = 0
    /\ pstack = <<>>
    /\ blocks = <<>>
    /\ program \in LowerPrograms
    /\ vpc = "idle"
    /\ vi = 1
    /\ blockIds = {}
    /\ providers = {}
    /\ policies = {}
    /\ tools = {}
    /\ workflows = {}
    /\ capabilities = {}
    /\ errors = <<>>
    /\ ir = NoIR
    /\ stdout = <<>>
    /\ stderr = <<>>
    /\ exitCode = 0
    /\ phase = "lower"
    /\ thrown = ""
    /\ other = NoOther

NextLower == ToIRCall

SpecLower == InitLower /\ [][NextLower]_vars

(***************************************************************************)
(* Two compiles of two documents in one process, each with its own Lexer,  *)
(* A22Parser, Validator and Transpiler, their steps interleaved.  The      *)
(* variables hold the compile that is running, other the one that is not.  *)
(***************************************************************************)
ProviderLlmText == "provider \"x\"\n  type: \"llm\"\n"
ProviderVisionText == "provider \"x\"\n  type: \"vision\"\n"
BlankBodyText == "agent \"a\"\n  can chat\n\n  can talk\n"
NoBlankBodyText == "agent \"a\"\n  can chat\n  can talk\n"
\* a list on one line, the same list with its elements on lines of their own
\* indented deeper than the attribute, and with them indented as the attribute
ListOneLineText == "agent \"a\"\n  tags = [one,two]\n"
ListDeeperLinesText == "agent \"a\"\n  tags = [\n    one,\n    two\n  ]\n"
ListSameLinesText == "agent \"a\"\n  tags = [\n  one,\n  two\n  ]\n"

TwoTexts ==
    {ProviderLlmText, ProviderVisionText, BlankBodyText, NoBlankBodyText,
     ListOneLineText, ListDeeperLinesText, ListSameLinesText,
     "provider \"p\"\n  tool \"b\"\n    x = 1\n  # done\n",
     "agent \"a\"\n  :sym\n",
     "!"}

\* the fields of the instances of the running compile, and its locals
Running ==
    [input |-> input, pos |-> pos, line |-> line, col |-> col,
     indentStack |-> indentStack, pendingTokens |-> pendingTokens,
     atLineStart |-> atLineStart, tokens |-> tokens, current |-> current,
     pstack |-> pstack, blocks |-> blocks, program |-> program, vpc |-> vpc, vi |-> vi,
     blockIds |-> blockIds, providers |-> providers, policies |-> policies,
     tools |-> tools, workflows |-> workflows, capabilities |-> capabilities,
     errors |-> errors, ir |-> ir, phase |-> phase, thrown |-> thrown]

\* a compile that has constructed its Lexer and done nothing else
NewCompile(text) ==
    [input |-> text, pos |-> 0, line |-> 1, col |-> 1, indentStack |-> <<0>>,
     pendingTokens |-> <<>>, atLineStart |-> TRUE, tokens |-> <<>>, current |-> 0,
     pstack |-> <<>>, blocks |-> <<>>, program |-> NoProgram, vpc |-> "idle", vi |-> 1,
     blockIds |-> {}, providers |-> {}, policies |-> {}, tools |-> {},
     workflows |-> {}, capabilities |-> {}, errors |-> <<>>, ir |-> NoIR,
     phase |-> "lex", thrown |-> ""]

\* a registry that every Validator shares: the one resumed finds in it what
\* the last one running wrote
ValidatorFieldStatic(own, last) == last

\* a registry of the Validator is a field of the instance: the Validator
\* resumed finds in it what it wrote itself
ValidatorField(own, last) == own

\* the running compile is suspended and the other one resumed; neither runs
\* once process.exit was called
Switch ==
    /\ other # NoOther
    /\ phase # "exit"
    /\ other' = Running
    /\ input' = other.input
    /\ pos' = other.pos
    /\ line' = other.line
    /\ col' = other.col
    /\ indentStack' = other.indentStack
    /\ pendingTokens' = other.pendingTokens
    /\ atLineStart' = other.atLineStart
    /\ tokens' = other.tokens
    /\ current' = other.current
    /\ pstack' = other.pstack
    /\ blocks' = other.blocks
    /\ program' = other.program
    /\ vpc' = other.vpc
    /\ vi' = other.vi
    /\ blockIds' = ValidatorField(other.blockIds, blockIds)
    /\ providers' = ValidatorField(other.providers, providers)
    /\ policies' = ValidatorField(other.policies, policies)
    /\ tools' = ValidatorField(other.tools, tools)
    /\ workflows' = ValidatorField(other.workflows, workflows)
    /\ capabilities' = ValidatorField(other.capabilities, capabilities)
    /\ errors' = other.errors
    /\ ir' = other.ir
    /\ phase' = other.phase
    /\ thrown' = other.thrown
    /\ UNCHANGED <<stdout, stderr, exitCode>>

InitTwo == \E t1, t2 \in TwoTexts : InitWith(t1) /\ other = NewCompile(t2)

NextTwo ==
    \/ Next
    \/ Switch

SpecTwo == InitTwo /\ [][NextTwo]_vars

(***************************************************************************)
(* compile() from the Program on: validate, the gate, toIR.  The Programs   *)
(* hold blocks in which an attribute or a child block is given twice.       *)
(***************************************************************************)
\* the most top-level blocks of a Program given to the Validator and toIR()
MaxAstBlocks == 2

\* an isolation block with the memory attributes given
Isolation(levels) ==
    Block("isolation", "", [i \in 1..Len(levels) |-> StringAttr("memory", levels[i])], <<>>)

\* a security block with a sandbox with the timeout_ms attributes given
Security(timeouts) ==
    Block("security", "",  <<>>,
          <<Block("sandbox", "",
                  [i \in 1..Len(timeouts) |-> NumberAttr("timeout_ms", timeouts[i])], <<>>)>>)

\* a limits block with the max_tool_calls attributes given
Limits(calls) ==
    Block("limits", "", [i \in 1..Len(calls) |-> NumberAttr("max_tool_calls", calls[i])], <<>>)

AstPool ==
    {Block("agent", "a", <<>>, <<Isolation(<<"strict">>), Isolation(<<"open">>)>>),
     Block("agent", "b", <<>>, <<Isolation(<<"strict", "open">>)>>),
     Block("agent", "c", <<>>, <<Isolation(<<"open", "strict">>)>>),
     Block("agent", "a", <<>>, <<Isolation(<<"shared">>)>>),
     Block("agent", "d", <<Attribute("policy", Reference(<<"p">>))>>, <<>>),
     Block("policy", "p", <<>>, <<Limits(<<5>>), Limits(<<0 - 1>>)>>),
     Block("policy", "q", <<>>, <<Limits(<<5, 3>>)>>),
     Block("tool", "a", <<>>, <<Security(<<5, 0>>)>>),
     Block("tool", "t", <<>>, <<Security(<<100>>)>>),
     Block("provider", "a", <<StringAttr("type", "llm")>>, <<>>),
     Block("workflow", "a", <<>>, <<>>),
     Block("capability", "a", <<>>, <<>>),
     Block("template", "a", <<>>, <<>>),
     Block("config", "a", <<>>, <<>>),
     Block("data", "User", <<StringAttr("email", "string")>>, <<>>)}

\* every sequence of n blocks of the pool
RECURSIVE AstSeqs(_)
AstSeqs(n) ==
    IF n = 0 THEN {<<>>} ELSE {Append(bs, b) : bs \in AstSeqs(n - 1), b \in AstPool}

AstPrograms == {Program(bs) : bs \in UNION {AstSeqs(n) : n \in 0..MaxAstBlocks}}

\* parse has returned the Program; compile is about to validate it
InitAst ==
    /\ input = ""
    /\ pos = 0
    /\ line = 1
    /\ col = 1
    /\ indentStack = <<0>>
    /\ pendingTokens = <<>>
    /\ atLineStart = TRUE
    /\ tokens = <<>>
    /\ current = 0
    /\ pstack = <<>>
    /\ blocks = <<>>
    /\ program \in AstPrograms
    /\ vpc = "idle"
    /\ vi = 1
    /\ blockIds = {}
    /\ providers = {}
    /\ policies = {}
    /\ tools = {}
    /\ workflows = {}
    /\ capabilities = {}
    /\ errors = <<>>
    /\ ir = NoIR
    /\ stdout = <<>>
    /\ stderr = <<>>
    /\ exitCode = 0
    /\ phase = "validate"
    /\ thrown = ""
    /\ other = NoOther

NextAst ==
    \/ NextValidate
    \/ CompileReject
    \/ CompileLower

SpecAst == InitAst /\ [][NextAst]_vars

(***************************************************************************)
(* One Validator, validate() called on it again and again                   *)
(***************************************************************************)
\* the most top-level blocks of a Program given to a Validator that is used again
MaxAgainBlocks == 2

AgainPool ==
    {Block("provider", "x", <<StringAttr("type", "llm")>>, <<>>),
     Block("policy", "strict", <<>>, <<>>),
     Block("agent", "a", <<Attribute("policy", Reference(<<"strict">>))>>, <<>>),
     Block("tool", "t", <<>>, <<>>)}

\* every sequence of n blocks of the pool
RECURSIVE AgainSeqs(_)
AgainSeqs(n) ==
    IF n = 0 THEN {<<>>} ELSE {Append(bs, b) : bs \in AgainSeqs(n - 1), b \in AgainPool}

AgainPrograms == {Program(bs) : bs \in UNION {AgainSeqs(n) : n \in 0..MaxAgainBlocks}}

\* validate(next) called on a Validator whose validate has returned before:
\* errors is a new local, the fields are what the earlier calls left
ValidateAgain ==
    /\ vpc = "returned"
    /\ \E next \in AgainPrograms : program' = next
    /\ vpc' = "pass1"
    /\ vi' = 1
    /\ errors' = <<>>
    /\ phase' = "validate"
    /\ UNCHANGED <<blockIds, providers, policies, tools, workflows, capabilities>>
    /\ UNCHANGED <<current, pstack, blocks>>
    /\ UNCHANGED thrown
    /\ UNCHANGED <<lexVars, outputVars>>
    /\ UNCHANGED other

InitAgain ==
    /\ input = ""
    /\ pos = 0
    /\ line = 1
    /\ col = 1
    /\ indentStack = <<0>>
    /\ pendingTokens = <<>>
    /\ atLineStart = TRUE
    /\ tokens = <<>>
    /\ current = 0
    /\ pstack = <<>>
    /\ blocks = <<>>
    /\ program \in AgainPrograms
    /\ vpc = "idle"
    /\ vi = 1
    /\ blockIds = {}
    /\ providers = {}
    /\ policies = {}
    /\ tools = {}
    /\ workflows = {}
    /\ capabilities = {}
    /\ errors = <<>>
    /\ ir = NoIR
    /\ stdout = <<>>
    /\ stderr = <<>>
    /\ exitCode = 0
    /\ phase = "validate"
    /\ thrown = ""
    /\ other = NoOther

NextAgain ==
    \/ NextValidate
    \/ ValidateAgain

SpecAgain == InitAgain /\ [][NextAgain]_vars

(***************************************************************************)
(* Properties                                                              *)
(***************************************************************************)
\* tokenize() has returned its token sequence
Tokenized == tokens # <<>> /\ tokens[Len(tokens)].type = "EOF"

\* Indent tokens less Dedent tokens among the first n tokens
RECURSIVE IndentDepth(_)
IndentDepth(n) ==
    IF n = 0 THEN 0
    ELSE IndentDepth(n - 1)
         + (IF tokens[n].type = "Indent" THEN 1
            ELSE IF tokens[n].type = "Dedent" THEN 0 - 1 ELSE 0)

\* C1: Indent and Dedent tokens are balanced: no prefix of the token sequence
\* holds more Dedent than Indent tokens, and the sequence tokenize() returns
\* holds as many of the one as of the other.
C1_Balanced ==
    /\ \A n \in 0..Len(tokens) : IndentDepth(n) >= 0
    /\ Tokenized => IndentDepth(Len(tokens)) = 0

\* a returned sequence with two nested Indents, each closed by its Dedent
C1_Witness ==
    /\ Tokenized
    /\ \E n \in 1..Len(tokens) : IndentDepth(n) = 2
    /\ tokens[Len(tokens) - 1].type = "Dedent"

\* the body loop of parseBlock is about to look at a token that can start
\* neither a statement, an attribute, nor the end of the body
BodyAtStray ==
    /\ InBlock("body")
    /\ ~isAtEnd(skipNewlines(current))
    /\ peek(skipNewlines(current)).type \notin {"Keyword", "Identifier", "Newline", "Dedent"}

\* C2: a token of a block body that is neither a Keyword, an Identifier, a
\* Newline nor a Dedent makes parse raise an error: the step the parser takes
\* at such a token is the throw.
C2_StrayTokenRaises == [][BodyAtStray => phase' = "caught"]_vars

\* the values of the string Literals of an expression
RECURSIVE StringLiterals(_)
StringLiterals(expr) ==
    CASE expr.kind = "Literal" -> IF expr.value.t = "string" THEN {expr.value.s} ELSE {}
      [] expr.kind = "List" ->
            UNION {StringLiterals(expr.elements[i]) : i \in 1..Len(expr.elements)}
      [] expr.kind = "Map" ->
            UNION {StringLiterals(expr.properties[i].value) : i \in 1..Len(expr.properties)}
      [] OTHER -> {}

\* the values of the string Literals of a block and of the blocks inside it
RECURSIVE BlockStrings(_)
BlockStrings(block) ==
    UNION {StringLiterals(block.attributes[i].value) : i \in 1..Len(block.attributes)}
    \cup UNION {BlockStrings(block.children[i]) : i \in 1..Len(block.children)}

\* C3: no string Literal of a Program that parse returned, the content of a
\* prompt statement included, matches a credential pattern.
C3_NoCredentialInAst ==
    program.kind = "Program" =>
        \A i \in 1..Len(program.blocks) :
            \A v \in BlockStrings(program.blocks[i]) : ~MatchesCredentialPattern(v)

\* every diagnostic was printed
AllPrinted == \A i \in 1..Len(errors) : \E j \in 1..Len(stderr) : stderr[j] = "- " \o errors[i]

\* what holds of the outputs at every moment of compile
GateInvariant ==
    /\ (ir # NoIR \/ stdout # <<>>) => (vpc = "returned" /\ errors = <<>>)
    /\ (vpc = "returned" /\ errors # <<>> /\ phase # "gate") =>
            /\ phase = "exit" /\ exitCode # 0
            /\ AllPrinted
            /\ ir = NoIR /\ stdout = <<>>

\* C4: toIR runs and an IR document is printed only once validate has
\* returned an empty list; with a non-empty list the next thing compile does
\* is to print every diagnostic and exit with a non-zero status, without
\* calling toIR.
C4_LoweringGated ==
    /\ []GateInvariant
    /\ [][(phase = "gate" /\ errors # <<>>) =>
            (phase' = "exit" /\ exitCode' # 0 /\ ir' = NoIR /\ stdout' = <<>>)]_vars

\* compile has exited after validate returned two diagnostics
C4_Witness ==
    /\ phase = "exit" /\ vpc = "returned"
    /\ Len(errors) = 2 /\ AllPrinted
    /\ exitCode = 1 /\ ir = NoIR

\* C5: once tokenize or parse has raised, validate and toIR are never called
\* and no IR is produced; and compile of the provider block with the literal
\* credential sk-abcdef1234567890abcdef1234567890 never reaches validate and
\* ends by the SecurityError.
C5_FatalErrorStops ==
    /\ thrown # "" =>
            /\ phase \in {"caught", "exit"}
            /\ vpc = "idle" /\ errors = <<>>
            /\ program = NoProgram
            /\ ir = NoIR /\ stdout = <<>>
    /\ input = ProviderLiteralKeyText =>
            /\ vpc = "idle"
            /\ phase \in {"lex", "parse", "caught", "exit"}
            /\ phase \in {"caught", "exit"} => thrown = SecurityMessage

\* compile of the provider with the literal credential has exited by the
\* SecurityError
C5_Witness ==
    /\ input = ProviderLiteralKeyText
    /\ phase = "exit" /\ exitCode = 1
    /\ stderr = <<SecurityMessage>>
    /\ vpc = "idle"

\* the returned sequence ends in its only EOF token
EofLastOnly ==
    phase = "parse" =>
        /\ tokens # <<>>
        /\ tokens[Len(tokens)].type = "EOF"
        /\ \A i \in 1..(Len(tokens) - 1) : tokens[i].type # "EOF"

\* C6: tokenize terminates, by returning a sequence whose last and only last
\* token is EOF or by raising the error of an unknown character; and every
\* nextToken() that returns a token other than EOF has consumed input, pushed
\* or popped an indent level, or drained a pending token.
C6_TokenizeTerminates ==
    /\ []EofLastOnly
    /\ [][(phase = "lex" /\ phase' = "lex") =>
            \/ pos' > pos
            \/ Len(indentStack') # Len(indentStack)
            \/ Len(pendingTokens') < Len(pendingTokens)]_vars
    /\ <>(phase = "parse" \/ (phase = "caught" /\ thrown # ""))

\* a returned sequence for which nextToken() measured, pushed, popped two
\* levels at once and drained the pending Dedent
C6_Witness ==
    /\ phase = "parse"
    /\ Len(tokens) >= 3
    /\ tokens[Len(tokens) - 1].type = "Dedent"
    /\ tokens[Len(tokens) - 2].type = "Dedent"
    /\ pos = Len(input)

\* C7: the provider "x" block with credentials = secrets.API_KEY validates
\* with zero diagnostics: its compile comes to the return of validate with an
\* empty list.
C7_SecretsReferenceValidates ==
    (input = ProviderSecretsText) ~> (vpc = "returned" /\ errors = <<>>)

\* the block at index i has the type and identifier of an earlier block
Repeats(bs, i) ==
    \E j \in 1..(i - 1) : bs[j].type = bs[i].type /\ bs[j].identifier = bs[i].identifier

\* one "Duplicate definition" diagnostic for each block of bs[i..] that
\* repeats an earlier block, in block order
RECURSIVE DuplicatesFrom(_, _)
DuplicatesFrom(bs, i) ==
    IF i > Len(bs) THEN <<>>
    ELSE (IF Repeats(bs, i)
          THEN <<"Duplicate definition: " \o bs[i].type \o "." \o bs[i].identifier>>
          ELSE <<>>)
         \o DuplicatesFrom(bs, i + 1)

IsDuplicateDiagnostic(e) == Len(e) >= 21 /\ SubSeq(e, 1, 21) = "Duplicate definition:"

\* C8: once pass 1 is over, the "Duplicate definition" diagnostics of the
\* list are exactly one per top-level block whose type and identifier are
\* those of an earlier block: none for the first of a pair, n-1 for n blocks.
C8_DuplicatesReported ==
    vpc \in {"pass2", "returned"} =>
        SelectSeq(errors, IsDuplicateDiagnostic) = DuplicatesFrom(program.blocks, 1)

\* validate has returned for three blocks of one type and identifier
C8_Witness ==
    /\ vpc = "returned"
    /\ Len(program.blocks) = 3
    /\ Repeats(program.blocks, 2) /\ Repeats(program.blocks, 3)
    /\ program.blocks[1].type = program.blocks[3].type
    /\ Len(SelectSeq(errors, IsDuplicateDiagnostic)) = 2

\* the provider rule on the type attribute: the block declares a type whose
\* value is a Literal that is one of the valid types
DeclaresValidType(block) ==
    \E i \in 1..Len(block.attributes) :
        /\ block.attributes[i].key = "type"
        /\ block.attributes[i].value.kind = "Literal"
        /\ Includes(validTypes, block.attributes[i].value.value)

\* the block breaks a rule of pass 2
BreaksRule(block) ==
    \/ validateBlock(block, policies) # <<>>
    \/ block.type = "provider" /\ ~DeclaresValidType(block)

\* C9: validate reports every rule violation of every top-level block: when k
\* blocks each break a rule the returned list holds at least k diagnostics.
C9_EveryViolationReported ==
    vpc = "returned" =>
        Len(errors) >= Cardinality({i \in 1..Len(program.blocks) : BreaksRule(program.blocks[i])})

\* some diagnostic of the list names the provider block
ProviderReported(block) ==
    \E k \in 1..Len(errors) :
        LET prefix == "Provider \"" \o block.identifier \o "\" "
        IN  \/ Len(errors[k]) >= Len(prefix) /\ SubSeq(errors[k], 1, Len(prefix)) = prefix
            \/ errors[k] = "Duplicate definition: provider." \o block.identifier

\* C10: a top-level provider block that validate reports no diagnostic for
\* declares a type attribute whose value is a Literal among llm, embedding,
\* vision, audio.
C10_ProviderTypeRule ==
    vpc = "returned" =>
        \A i \in 1..Len(program.blocks) :
            (program.blocks[i].type = "provider" /\ ~ProviderReported(program.blocks[i]))
                => DeclaresValidType(program.blocks[i])

\* some diagnostic of the list is about the block: it starts with the label
\* and the quoted identifier, or reports the block as a duplicate
DiagnosticFor(label, block) ==
    \E k \in 1..Len(errors) :
        LET prefix == label \o " \"" \o block.identifier \o "\" "
        IN  \/ Len(errors[k]) >= Len(prefix) /\ SubSeq(errors[k], 1, Len(prefix)) = prefix
            \/ errors[k] = "Duplicate definition: " \o block.type \o "." \o block.identifier

\* C11: a top-level policy block that validate reports no diagnostic for has
\* only strictly positive numbers as the numeric literal values of the
\* attributes of every nested limits child block.
C11_PolicyLimitsPositive ==
    vpc = "returned" =>
        \A i \in 1..Len(program.blocks) :
            LET block == program.blocks[i]
            IN  (block.type = "policy" /\ ~DiagnosticFor("Policy", block)) =>
                    \A c \in 1..Len(block.children) :
                        block.children[c].type = "limits" =>
                            \A a \in 1..Len(block.children[c].attributes) :
                                LET v == block.children[c].attributes[a].value
                                IN  (v.kind = "Literal" /\ v.value.t = "number")
                                        => v.value.num > 0

\* the identifiers of the top-level policy blocks of the program
DeclaredPolicies == {program.blocks[i].identifier :
                        i \in {j \in 1..Len(program.blocks) : program.blocks[j].type = "policy"}}

\* the block is an agent whose policy attribute is a Reference
RefersToPolicy(block) ==
    /\ block.type = "agent"
    /\ \E a \in 1..Len(block.attributes) : block.attributes[a].key = "policy"
    /\ findAttribute(block, "policy").value.kind = "Reference"

\* the name the policy attribute of the agent refers to: the last segment
PolicyName(block) ==
    LET path == findAttribute(block, "policy").value.path IN path[Len(path)]

\* the list holds the 'references undefined policy' diagnostic of the agent
UndefinedPolicyReported(block) ==
    \E k \in 1..Len(errors) :
        errors[k] = "Agent \"" \o block.identifier \o "\" references undefined policy: "
                    \o PolicyName(block)

\* C12: for an agent whose policy attribute is a Reference, the returned list
\* holds 'references undefined policy' exactly when no top-level policy block
\* of the program, before or after the agent, has the referenced name as its
\* identifier.
C12_AgentPolicyReference ==
    vpc = "returned" =>
        \A i \in 1..Len(program.blocks) :
            RefersToPolicy(program.blocks[i]) =>
                (UndefinedPolicyReported(program.blocks[i])
                    <=> PolicyName(program.blocks[i]) \notin DeclaredPolicies)

\* validate has returned without that diagnostic for an agent whose policy is
\* declared after it
C12_Witness ==
    /\ vpc = "returned"
    /\ Len(program.blocks) = 2
    /\ RefersToPolicy(program.blocks[1])
    /\ program.blocks[2].type = "policy"
    /\ program.blocks[2].identifier = PolicyName(program.blocks[1])
    /\ ~UndefinedPolicyReported(program.blocks[1])

\* the enumeration of an isolation attribute
IsolationLevels(key) ==
    CASE key = "memory" -> <<"strict", "shared", "none">>
      [] key = "network" -> <<"full", "limited", "none">>
      [] key = "filesystem" -> <<"full", "readonly", "none">>

\* C13: an agent block that validate reports no diagnostic for has, in every
\* nested isolation block, only memory, network and filesystem attributes
\* whose value is in the attribute's enumeration.
C13_AgentIsolationRule ==
    vpc = "returned" =>
        \A i \in 1..Len(program.blocks) :
            LET block == program.blocks[i]
            IN  (block.type = "agent" /\ ~DiagnosticFor("Agent", block)) =>
                    \A c \in 1..Len(block.children) :
                        block.children[c].type = "isolation" =>
                            \A a \in 1..Len(block.children[c].attributes) :
                                LET attr == block.children[c].attributes[a]
                                IN  attr.key \in {"memory", "network", "filesystem"} =>
                                        /\ attr.value.kind = "Literal"
                                        /\ Includes(IsolationLevels(attr.key), attr.value.value)

\* the number of slashes of s
SlashCount(s) == Cardinality({i \in 1..Len(s) : SubSeq(s, i, i) = "/"})

\* the model the claim gives a model string: split at its only slash, or
\* the whole string under the provider "default"
ExpectedModel(s) ==
    IF SlashCount(s) = 1
    THEN LET at == CHOOSE i \in 1..Len(s) : SubSeq(s, i, i) = "/"
         IN  [provider |-> SubSeq(s, 1, at - 1), name |-> SubSeq(s, at + 1, Len(s))]
    ELSE [provider |-> "default", name |-> s]

\* an agent whose model is given by one attribute, a string Literal, and by
\* no nested model block
HasLiteralModel(block) ==
    /\ block.type = "agent"
    /\ \A c \in 1..Len(block.children) : block.children[c].type # "model"
    /\ Cardinality({a \in 1..Len(block.attributes) : block.attributes[a].key = "model"}) = 1
    /\ findAttribute(block, "model").value.kind = "Literal"
    /\ findAttribute(block, "model").value.value.t = "string"

\* the number of blocks of the type among the first i blocks of the program
CountOfType(type, i) == Cardinality({j \in 1..i : program.blocks[j].type = type})

\* C14: the IR agent of an agent block whose model attribute is the string
\* Literal s has model = {provider: text before '/', name: text after '/'}
\* when s holds exactly one '/', and {provider: "default", name: s} otherwise.
C14_AgentModelLowering ==
    phase = "lowered" =>
        \A i \in 1..Len(program.blocks) :
            HasLiteralModel(program.blocks[i]) =>
                ir.agents[CountOfType("agent", i)].model
                    = ExpectedModel(findAttribute(program.blocks[i], "model").value.value.s)

\* toIR has lowered the agents of "openai/gpt-4" and of "gpt-4"
C14_Witness ==
    /\ phase = "lowered"
    /\ Len(program.blocks) = 2
    /\ HasLiteralModel(program.blocks[1]) /\ HasLiteralModel(program.blocks[2])
    /\ findAttribute(program.blocks[1], "model").value.value.s = "openai/gpt-4"
    /\ findAttribute(program.blocks[2], "model").value.value.s = "gpt-4"
    /\ ir.agents[1].model = [provider |-> "openai", name |-> "gpt-4"]
    /\ ir.agents[2].model = [provider |-> "default", name |-> "gpt-4"]

\* the list of the IR document that the blocks of a type are lowered into
ListOfType ==
    [agent |-> "agents", tool |-> "tools", workflow |-> "flows", provider |-> "providers",
     policy |-> "policies", capability |-> "capabilities", template |-> "templates",
     config |-> "configs", data |-> "types"]

\* the identifiers of the top-level blocks of a type, in source order
IdentifiersOf(type) ==
    LET bs == SelectSeq(program.blocks, LAMBDA b : b.type = type)
    IN  [i \in 1..Len(bs) |-> bs[i].identifier]

\* C16: toIR returns a document of version "1.0" with the nine lists, in
\* which the blocks of each of the nine types have one entity each in the
\* list of their type, in source order, named (and, but for a custom type,
\* which has no id, identified) by the block's identifier; blocks of other
\* types have no entity.
C16_TopLevelDispatch ==
    phase = "lowered" =>
        /\ ir.version = "1.0"
        /\ DOMAIN ir = {"version"} \cup {ListOfType[type] : type \in DOMAIN ListOfType}
        /\ \A type \in DOMAIN ListOfType :
                LET entities == ir[ListOfType[type]]
                IN  /\ [i \in 1..Len(entities) |-> entities[i].name] = IdentifiersOf(type)
                    /\ type # "data" =>
                            [i \in 1..Len(entities) |-> entities[i].id] = IdentifiersOf(type)

\* toIR has lowered a block of an unknown type, which gave no entity, followed
\* by a workflow block
C16_Witness ==
    /\ phase = "lowered"
    /\ Len(program.blocks) = 2
    /\ program.blocks[1].type \notin DOMAIN ListOfType
    /\ program.blocks[2].type = "workflow"
    /\ ir.flows = <<[id |-> "w", name |-> "w", steps |-> <<>>]>>
    /\ ir.agents = <<>>

\* the kinds of the tokens tokenize() has pushed so far
TokenKinds == [i \in 1..Len(tokens) |-> tokens[i].type]

\* the kind of a word: Boolean, reserved word or name
WordKind(word) ==
    IF word \in {"true", "false"} THEN "Boolean"
    ELSE IF word \in KEYWORDS THEN "Keyword"
    ELSE "Identifier"

\* the token is a word: letters, digits and underscores, no digit first
IsWord(token) ==
    /\ token.value # ""
    /\ SubSeq(token.value, 1, 1) \in IdentStart
    /\ \A i \in 1..Len(token.value) : SubSeq(token.value, i, i) \in IdentPart
    /\ token.type # "String"

\* C17: tokenize of the header line agent "x" and the deeper body line
\* can chat returns the kinds Keyword, String, Newline, Indent, Keyword,
\* Identifier, Newline, Dedent, EOF; and in every token sequence a word is a
\* Boolean if it is true or false, a Keyword if it is reserved, an
\* Identifier otherwise.
C17_HeaderAndBodyTokens ==
    /\ (input = AgentCanChatText /\ Tokenized) =>
            TokenKinds = <<"Keyword", "String", "Newline", "Indent", "Keyword",
                           "Identifier", "Newline", "Dedent", "EOF">>
    /\ \A i \in 1..Len(tokens) : IsWord(tokens[i]) => tokens[i].type = WordKind(tokens[i].value)

\* tokenize has returned the nine tokens of the header and body lines
C17_Witness ==
    /\ input = AgentCanChatText
    /\ Tokenized
    /\ Len(tokens) = 9
    /\ tokens[5].value = "can" /\ tokens[6].value = "chat"

\* the offset in input of the first character of line ln
RECURSIVE LineOffset(_, _)
LineOffset(ln, from) ==
    IF ln = 1 THEN from ELSE LineOffset(ln - 1, ScanUntil(from, "\n") + 1)

\* the offset in input of the first character of a token
OffsetOf(token) == LineOffset(token.line, 0) + token.column - 1

\* the dotted name written in the source from the offset on: the longest run
\* of letters, digits, underscores and dots
WrittenName(offset) == SubSeq(input, offset + 1, ScanWhile(offset, IdentPart \cup {"."}))

\* n1.n2...nk, k >= 1, each ni an identifier
IsDottedName(name) ==
    \A i \in 1..Len(Split(name, ".")) :
        /\ Split(name, ".")[i] # ""
        /\ SubSeq(Split(name, ".")[i], 1, 1) \in IdentStart

\* the tokens (by index) at which the value of an attribute begins with an
\* identifier
ValueIdentifiers ==
    {i \in 2..Len(tokens) : /\ tokens[i].type = "Identifier"
                            /\ tokens[i - 1].type \in {"Equals", "Colon"}}

\* C20: a dotted name n1.n2...nk written as the value of an attribute is
\* parsed into one Reference whose path is <<n1, ..., nk>>, and parsing it
\* consumes every token of the name.
C20_DottedNameIsOneReference ==
    Tokenized =>
        \A i \in ValueIdentifiers :
            LET name == WrittenName(OffsetOf(tokens[i]))
                r == parseReference(i - 1)
            IN  IsDottedName(name) =>
                    /\ r.ok
                    /\ r.val = Reference(Split(name, "."))
                    /\ OffsetOf(tokens[r.cur + 1]) >= OffsetOf(tokens[i]) + Len(name)

\* the identifiers of the top-level blocks of a type of a program (none
\* before parse has returned it)
IdentifiersIn(prog, type) ==
    IF prog = NoProgram THEN {}
    ELSE {prog.blocks[i].identifier :
            i \in {j \in 1..Len(prog.blocks) : prog.blocks[j].type = type}}

\* the diagnostics of pass 2 for the blocks bs[i..], given the policies of
\* the whole program
RECURSIVE RuleDiagnostics(_, _, _)
RuleDiagnostics(bs, i, declared) ==
    IF i > Len(bs) THEN <<>>
    ELSE validateBlock(bs[i], declared) \o RuleDiagnostics(bs, i + 1, declared)

\* what validate returns for a program when its Validator sees no other
AloneDiagnostics(prog) ==
    DuplicatesFrom(prog.blocks, 1)
    \o RuleDiagnostics(prog.blocks, 1, IdentifiersIn(prog, "policy"))

\* the registries of a compile hold nothing but identifiers of its own document
OwnRegistries(c) ==
    /\ c.blockIds \subseteq
            (IF c.program = NoProgram THEN {}
             ELSE {BlockKey(c.program.blocks[i]) : i \in 1..Len(c.program.blocks)})
    /\ c.providers \subseteq IdentifiersIn(c.program, "provider")
    /\ c.policies \subseteq IdentifiersIn(c.program, "policy")
    /\ c.tools \subseteq IdentifiersIn(c.program, "tool")
    /\ c.workflows \subseteq IdentifiersIn(c.program, "workflow")
    /\ c.capabilities \subseteq IdentifiersIn(c.program, "capability")

\* the diagnostics and the IR of a compile are those of its document alone
OwnResults(c) ==
    /\ c.vpc = "returned" => c.errors = AloneDiagnostics(c.program)
    /\ c.ir # NoIR => (c.errors = <<>> /\ c.ir = toIR(c.program))

\* C18: of two compiles with their own instances, interleaved in any order,
\* each returns the diagnostics and the IR of its own document alone, and no
\* registry of one holds an identifier of the other's document.
C18_CompilesShareNoState ==
    other # NoOther =>
        /\ OwnRegistries(Running) /\ OwnResults(Running)
        /\ OwnRegistries(other) /\ OwnResults(other)

\* two documents that declare the same provider were both validated, each
\* without a diagnostic, and the compile running has lowered its own
C18_Witness ==
    /\ other # NoOther
    /\ input = ProviderLlmText /\ other.input = ProviderVisionText
    /\ vpc = "returned" /\ other.vpc = "returned"
    /\ blockIds = {"provider.x"} /\ other.blockIds = {"provider.x"}
    /\ errors = <<>> /\ other.errors = <<>>
    /\ phase = "done" /\ ir.providers[1].type = "llm"

\* text without its empty lines: every newline that follows a newline dropped
RECURSIVE WithoutEmptyLines(_, _)
WithoutEmptyLines(text, i) ==
    IF i > Len(text) THEN ""
    ELSE (IF i > 1 /\ SubSeq(text, i, i) = "\n" /\ SubSeq(text, i - 1, i - 1) = "\n"
          THEN "" ELSE SubSeq(text, i, i))
         \o WithoutEmptyLines(text, i + 1)

\* parse has returned or thrown
ParseOver(c) == c.phase \notin {"lex", "parse"}

\* C19: a source with an empty line between two statements of a block body
\* parses to the Program of the same source without the empty line.
C19_BlankLinesSkipped ==
    (/\ other # NoOther
     /\ input = BlankBodyText
     /\ other.input = WithoutEmptyLines(input, 1)
     /\ ParseOver(Running) /\ ParseOver(other))
        => program = other.program

\* nextToken() is about to handle the start of a line
AtLineStartCall == phase = "lex" /\ atLineStart /\ pendingTokens = <<>>

\* the indentation of the line the Lexer stands at the start of
MeasuredIndent == measureIndent(pos, 0).indent

\* the levels of the indent stack that are not greater than m
LevelsUpTo(m) == SelectSeq(indentStack, LAMBDA level : level <= m)

\* the token the step appended to the token sequence first
Emitted == tokens'[Len(tokens) + 1]

\* C21: at the start of a line whose measured indent m is smaller than the top
\* of the indent stack, the levels greater than m and only those are popped
\* (the base 0 stays), one Dedent is emitted for each popped level, the first
\* at once and the others queued and emitted by the next calls before anything
\* else of the line is read; when m equals the top, the token of that call is
\* neither an Indent nor a Dedent and the stack stays as it is.
C21_DedentsPerPoppedLevel ==
    [][/\ (AtLineStartCall /\ MeasuredIndent < Top(indentStack)) =>
             /\ indentStack' = LevelsUpTo(MeasuredIndent)
             /\ Head(indentStack') = 0
             /\ tokens' = Append(tokens, Emitted) /\ Emitted.type = "Dedent"
             /\ Len(pendingTokens') = Len(indentStack) - Len(indentStack') - 1
             /\ \A i \in 1..Len(pendingTokens') : pendingTokens'[i].type = "Dedent"
       /\ (phase = "lex" /\ pendingTokens # <<>>) =>
             /\ tokens' = Append(tokens, Head(pendingTokens))
             /\ pendingTokens' = Tail(pendingTokens)
             /\ pos' = pos /\ indentStack' = indentStack
       /\ (AtLineStartCall /\ MeasuredIndent = Top(indentStack) /\ phase' = "lex") =>
             /\ Emitted.type \notin {"Indent", "Dedent"}
             /\ indentStack' = indentStack]_vars

\* a line closed two levels: its two Dedents stand next to each other, before
\* the first word of the line
C21_Witness ==
    \E i \in 1..Len(tokens) - 3 :
        /\ tokens[i].type = "Newline"
        /\ tokens[i + 1].type = "Dedent" /\ tokens[i + 2].type = "Dedent"
        /\ tokens[i + 3].type = "Keyword" /\ tokens[i + 3].line = tokens[i + 1].line

\* the top-level blocks of a type, in source order
BlocksOfType(type) == SelectSeq(program.blocks, LAMBDA b : b.type = type)

\* the credentials attributes of a block that are references or maps
CredentialsOf(block) ==
    SelectSeq(block.attributes,
              LAMBDA attr : attr.key = "credentials" /\ attr.value.kind \in {"Reference", "Map"})

\* the value an entry of a map gives the IR: the value of a literal, the
\* neutral default for anything else
EntryValue(expr) ==
    IF expr.kind # "Literal" THEN ""
    ELSE CASE expr.value.t = "string" -> expr.value.s
           [] expr.value.t = "boolean" -> expr.value.b
           [] OTHER -> expr.value

\* lowered is what the claim says of a credentials reference with this path
IsLoweredReference(lowered, path) ==
    /\ DOMAIN lowered = {"type", "ref"}
    /\ lowered.type = path[1]
    /\ IF Len(path) = 1 THEN lowered.ref = ""
       ELSE /\ Split(lowered.ref, ".") = Tail(path)
            /\ Split(lowered.type \o "." \o lowered.ref, ".") = path

\* lowered is what the claim says of a credentials map with these entries
IsLoweredMap(lowered, properties) ==
    /\ DOMAIN lowered = {properties[i].key : i \in 1..Len(properties)}
    /\ \A i \in 1..Len(properties) :
            (\A j \in i + 1..Len(properties) : properties[j].key # properties[i].key)
                => lowered[properties[i].key] = EntryValue(properties[i].value)

RECURSIVE OnOneLine(_, _, _)
OnOneLine(text, i, depth) ==
    IF i > Len(text) THEN ""
    ELSE LET c == SubSeq(text, i, i)
         IN  IF c = "[" THEN c \o OnOneLine(text, i + 1, depth + 1)
             ELSE IF c = "]" /\ depth > 0 THEN c \o OnOneLine(text, i + 1, depth - 1)
             ELSE IF depth > 0 /\ c \in {"\n", " ", "\t"} THEN OnOneLine(text, i + 1, depth)
             ELSE c \o OnOneLine(text, i + 1, depth)

\* the source has a line end inside a bracketed list
HasListAcrossLines(text) == OnOneLine(text, 1, 0) # text

\* C23: a source with a list written across several lines parses to the
\* Program of the same source with that list written on one line.
C23_ListAcrossLines ==
    (/\ other # NoOther
     /\ HasListAcrossLines(input)
     /\ other.input = OnOneLine(input, 1, 0)
     /\ ParseOver(Running) /\ ParseOver(other))
        => program = other.program

\* the 1-based line and column of the character at offset o (0-based) of the input
TrueLine(o) == 1 + Cardinality({i \in 1..o : SubSeq(input, i, i) = "\n"})
TrueColumn(o) ==
    LET ends == {i \in 1..o : SubSeq(input, i, i) = "\n"}
        lineStart == IF ends = {} THEN 0 ELSE CHOOSE i \in ends : \A j \in ends : j <= i
    IN  o - lineStart + 1

\* the offset of the first character of the token the step read: the Lexer
\* stands behind the token's text, which for a String includes its quotes
StartOfEmitted == pos' - Len(Emitted.value) - (IF Emitted.type = "String" THEN 2 ELSE 0)

\* C24: a token that stands for source characters (any but Indent, Dedent and
\* EOF) carries the line and column of its first character in the input, and
\* the error raised at an unknown character names that character's line and
\* column.
C24_TruePositions ==
    [][/\ (phase = "lex" /\ phase' = "lex" /\ Len(tokens') = Len(tokens) + 1
             /\ Emitted.type \notin {"Indent", "Dedent", "EOF"}) =>
             /\ Emitted.line = TrueLine(StartOfEmitted)
             /\ Emitted.column = TrueColumn(StartOfEmitted)
       /\ (phase = "lex" /\ phase' = "caught") =>
             thrown' = "Unexpected character '" \o CharAt(pos') \o "' at "
                         \o ToString(TrueLine(pos')) \o ":" \o ToString(TrueColumn(pos'))]_vars

\* the last attribute of a block with a key
HasAttribute(block, key) == \E i \in 1..Len(block.attributes) : block.attributes[i].key = key
LastAttribute(block, key) ==
    LET with == SelectSeq(block.attributes, LAMBDA attr : attr.key = key)
    IN  with[Len(with)]

\* the entity holds default under key when the block's (last) attribute of
\* that key is not of the variant kind
DefaultsTo(entity, block, key, kind, default) ==
    (HasAttribute(block, key) /\ LastAttribute(block, key).value.kind # kind)
        => key \in DOMAIN entity /\ entity[key] = default

\* the last child of a block of a type
HasChild(block, type) == \E i \in 1..Len(block.children) : block.children[i].type = type
LastChild(block, type) ==
    LET with == SelectSeq(block.children, LAMBDA child : child.type = type)
    IN  with[Len(with)]

\* C25: toIR returns an IR document for every Program, and where an attribute
\* is not of the variant its lowering rule expects the document holds the
\* neutral default: the empty string for extractString (system_prompt, a
\* template's system, a config's type), extractReference (prompt_template,
\* policy) and extractValue (the entries of a config), the empty array for
\* extractStringArray (capabilities) and 0 for extractNumber (rate limits).
C25_LoweringIsTotal ==
    /\ phase = "lower" => ENABLED ToIRCall
    /\ phase = "lowered" =>
        /\ DOMAIN ir = {"version"} \cup {ListOfType[type] : type \in DOMAIN ListOfType}
        /\ \A i \in 1..Len(BlocksOfType("agent")) :
                LET block == BlocksOfType("agent")[i]
                    agent == ir.agents[i]
                IN  /\ DefaultsTo(agent, block, "system_prompt", "Literal", "")
                    /\ DefaultsTo(agent, block, "prompt_template", "Reference", "")
                    /\ DefaultsTo(agent, block, "capabilities", "List", <<>>)
                    /\ ~HasChild(block, "policy") =>
                            DefaultsTo(agent, block, "policy", "Reference", "")
        /\ \A i \in 1..Len(BlocksOfType("template")) :
                DefaultsTo(ir.templates[i], BlocksOfType("template")[i], "system", "Literal", "")
        /\ \A i \in 1..Len(BlocksOfType("config")) :
                LET block == BlocksOfType("config")[i]
                IN  /\ DefaultsTo(ir.configs[i], block, "type", "Literal", "")
                    /\ \A j \in 1..Len(block.attributes) :
                            DefaultsTo(ir.configs[i].config, block, block.attributes[j].key,
                                       "Literal", "")
        /\ \A i \in 1..Len(BlocksOfType("provider")) :
                LET block == BlocksOfType("provider")[i]
                IN  HasChild(block, "limits") =>
                        /\ "limits" \in DOMAIN ir.providers[i]
                        /\ \A key \in {"requests_per_minute", "tokens_per_minute",
                                       "requests_per_day"} :
                                DefaultsTo(ir.providers[i].limits, LastChild(block, "limits"),
                                           key, "Literal", NumV(0, 0))

\* toIR has lowered an agent none of whose attributes is of the expected
\* variant and a provider whose rate limit is a reference
C25_Witness ==
    /\ phase = "lowered"
    /\ Len(program.blocks) = 2
    /\ program.blocks[1].identifier = "x" /\ program.blocks[2].identifier = "r"
    /\ ir.agents[1].system_prompt = "" /\ ir.agents[1].capabilities = <<>>
    /\ ir.providers[1].limits.requests_per_minute = NumV(0, 0)
    /\ ir.providers[1].limits.tokens_per_minute = NumV(100, 0)

\* a value an isolation rule of the Validator rejects
RejectedLevel(key, value) ==
    value # "" /\ \A i \in 1..Len(IsolationLevels(key)) : IsolationLevels(key)[i] # value

\* a number a positivity rule of the Validator rejects
RejectedNumber(value) == value.t = "number" /\ value.num <= 0

\* C26: the IR of a program that validated with zero diagnostics holds no
\* value the Validator's rules reject: no isolation level outside its
\* enumeration, no policy limit and no sandbox timeout_ms or max_memory_mb that
\* is not positive, also when the attribute or the child block that holds it
\* is given several times.
C26_SameOccurrence ==
    phase = "done" =>
        /\ \A i \in 1..Len(ir.agents) :
                "isolation" \in DOMAIN ir.agents[i] =>
                    \A key \in DOMAIN ir.agents[i].isolation :
                        ~RejectedLevel(key, ir.agents[i].isolation[key])
        /\ \A i \in 1..Len(ir.policies) :
                "limits" \in DOMAIN ir.policies[i] =>
                    \A key \in DOMAIN ir.policies[i].limits :
                        ~RejectedNumber(ir.policies[i].limits[key])
        /\ \A i \in 1..Len(ir.tools) :
                ("security" \in DOMAIN ir.tools[i]
                 /\ "sandbox" \in DOMAIN ir.tools[i].security) =>
                    \A key \in DOMAIN ir.tools[i].security.sandbox
                                 \cap {"timeout_ms", "max_memory_mb"} :
                        ~RejectedNumber(ir.tools[i].security.sandbox[key])

\* C27: whatever a Validator has validated before, validate returns for a
\* program the diagnostics a new Validator returns for it.
C27_ValidateDependsOnProgramOnly ==
    vpc = "returned" => errors = AloneDiagnostics(program)

\* what identifies the entities of a collection of the IR
IdentifierField(list) == IF list = "types" THEN "name" ELSE "id"

\* C28: in the IR of a program that validated with zero diagnostics no two
\* entities of one collection have the same id (the same name, for the custom
\* types).
C28_UniqueIdentifiers ==
    phase = "done" =>
        \A type \in DOMAIN ListOfType :
            LET entities == ir[ListOfType[type]]
                field == IdentifierField(ListOfType[type])
            IN  \A i, j \in 1..Len(entities) :
                    entities[i][field] = entities[j][field] => i = j

\* a program with two agents was accepted and lowered
C28_Witness ==
    /\ phase = "done"
    /\ vpc = "returned" /\ errors = <<>>
    /\ Len(ir.agents) = 2

\* the tokens the step appended to the token sequence
Appended == SubSeq(tokens', Len(tokens) + 1, Len(tokens'))

\* how many of the appended tokens are of a type
AppendedOfType(type) == Cardinality({i \in 1..Len(Appended) : Appended[i].type = type})

\* the indent stack has the base 0 at the bottom and rises strictly above it
StackWellFormed ==
    /\ Len(indentStack) >= 1
    /\ indentStack[1] = 0
    /\ \A i \in 1..Len(indentStack) - 1 : indentStack[i] < indentStack[i + 1]

\* C29: the indent stack is never empty, has 0 at its bottom and is strictly
\* increasing from bottom to top; a step that pushes a level pushes one and
\* emits an Indent token, and a step that pops levels emits or queues one
\* Dedent token for each.
C29_IndentStack ==
    /\ []StackWellFormed
    /\ [][/\ Len(indentStack') > Len(indentStack) =>
                /\ SubSeq(indentStack', 1, Len(indentStack)) = indentStack
                /\ Len(indentStack') = Len(indentStack) + 1
                /\ Len(Appended) = 1 /\ Appended[1].type = "Indent"
          /\ Len(indentStack') < Len(indentStack) =>
                /\ indentStack' = SubSeq(indentStack, 1, Len(indentStack'))
                /\ AppendedOfType("Dedent") + Len(pendingTokens') - Len(pendingTokens)
                        = Len(indentStack) - Len(indentStack')
                /\ \A i \in 1..Len(pendingTokens') : pendingTokens'[i].type = "Dedent"
          /\ Len(indentStack') = Len(indentStack) => indentStack' = indentStack]_lexVars

\* two levels were pushed and the upper one popped again, for a Dedent
C29_Witness ==
    /\ phase = "lex"
    /\ Len(indentStack) = 2 /\ indentStack[2] = 2
    /\ \E i \in 1..Len(tokens) : tokens[i].type = "Dedent"
    /\ IndentDepth(Len(tokens)) = 1

\* C30: when nextToken has handled the start of a line, the top of the indent
\* stack is the indentation measured for that line, also when the line
\* dedents to a width that is not on the stack.
C30_TopIsLineIndent ==
    [][(AtLineStartCall /\ phase' = "lex") => Top(indentStack') = MeasuredIndent]_vars

====
